---- MODULE Spec2Model ----
(***************************************************************************)
(* Backup control plane (teleporterx/bkpmgt): the Controller's connection *)
(* manager and dispatcher, the broker's per-agent inboxes, and the        *)
(* Agent's control-channel client and inbox consumers.                     *)
(*                                                                         *)
(* Both processes are asyncio programs: a coroutine runs atomically from   *)
(* one await to the next, so every action below is one such segment.       *)
(***************************************************************************)
EXTENDS Integers, Sequences, FiniteSets, TLC

\* ------------------------------------------------------------------ bounds
MaxConns == 2      \* accepted channel-open requests over a run
MaxMuts == 2       \* mutation calls over a run
MaxTime == 30      \* last value of the clock, in minutes
TickMinutes == 15  \* granule of the clock
MaxPasses == 2     \* passes of the DR monitor that are counted
MaxRetries == 7    \* consecutive failed connects of the agent that are counted
MaxLines == 3      \* lines of output of one run of the tool

\* ------------------------------------------------------- program constants
ACCESS_TOKEN_EXPIRE_MINUTES == 30
CLOSE_BROKER_DOWN == 4000
CLOSE_UNAUTHORIZED == 4001
max_retries == 5                \* obtain_jwt: token requests per call
backoff_factor == 2             \* obtain_jwt and agent()
auth_max_backoff_time == 120    \* obtain_jwt: max_backoff_time, seconds
max_backoff_time == 60          \* agent(): max_backoff_time, seconds
LoopSleep == 5                  \* agent() main loop: interruptible_sleep(5)

Agents == {"A", "B"}
ConnIds == 1..MaxConns
NoConn == 0
NoQueue == "none"
NoOrg == "none"
Orgs == {"org1", NoOrg}

\* The six dispatch mutations that target an agent.
Kinds == {"init_local_repo", "get_local_repo_snapshots", "do_local_repo_backup",
          "do_local_repo_restore", "do_s3_repo_backup", "do_s3_repo_restore"}

VARIABLES
    now,                 \* wall clock (minutes)
    started,             \* startup_event has run
    rabbit_connected,    \* manager.rabbit_connected
    active_connections,  \* manager.active_connections: uuid -> websocket (NoConn: absent)
    queues,              \* manager.queues: uuid -> queue object, by the uuid in its name
    status_collection,   \* client_status documents, one per system_uuid
    conn,                \* one record per channel-open request: the controller's coroutine
    nconn,               \* accepted channel-open requests so far
    lastOpen,            \* the last channel-open request and the close code it got (0: none)
    inbox,               \* the broker's queue "queue_<uuid>"
    cons,                \* consumer tasks of the agents, one per accepted channel
    agent,               \* the agent process' control loop
    nmut,                \* mutation calls so far
    lastMut,             \* the last mutation call and what it returned
    invoked,             \* per agent: ids of the jobs its handlers were invoked for, in order
    handled,             \* ids of the jobs whose handler has returned
    ledger,              \* per agent: the tables of bkpmgt.db (rows in insertion order)
    nonce,               \* Fernet tokens issued so far (each carries a fresh random IV)
    saver,               \* save_command calls in progress
    run,                 \* per agent: the handler run its consumer is executing
    nrun,                \* handler runs started so far
    ws_state,            \* per agent: websocket.state of the socket its consumer holds
    upstream,            \* per agent: responses sent on the channel, not yet received
    store,               \* the controller's result store: collection -> documents
    repos,               \* per agent: the local restic repositories that are initialized
    dr,                  \* the DR monitor: its policy, its position in the pass, its log
    responded            \* history: per (agent, repo_path), when the receive loop last handled a list-snapshots response

chanVars == <<now, started, rabbit_connected, active_connections, queues, status_collection,
              conn, nconn, lastOpen, inbox, cons, agent, nmut, lastMut, invoked, handled>>

extVars == <<ledger, nonce, saver, run, nrun, ws_state, upstream, store, repos, dr, responded>>

vars == <<chanVars, extVars>>

srvVars == <<started, rabbit_connected, active_connections, queues, status_collection>>

\* ------------------------------------------------------------------ tokens
NoToken == [sub |-> "none", exp |-> 0, wellformed |-> FALSE, signed |-> FALSE]
PayloadNone == [sub |-> "none", exp |-> 0]

\* jwt.encode of {"sub", "exp": now + 30 minutes} under SECRET_KEY
create_access_token(sub, t) ==
    [sub |-> sub, exp |-> t + ACCESS_TOKEN_EXPIRE_MINUTES, wellformed |-> TRUE, signed |-> TRUE]

\* A verification that checks form and signature and skips the exp claim.
verify_access_token_no_exp(token, t) ==
    IF token.wellformed /\ token.signed
    THEN [sub |-> token.sub, exp |-> token.exp]
    ELSE PayloadNone

\* jwt.decode: DecodeError, InvalidSignatureError and ExpiredSignatureError
\* (raised when exp <= now) are all PyJWTError, which yields None.
verify_access_token(token, t) ==
    IF token.wellformed /\ token.signed /\ token.exp > t
    THEN [sub |-> token.sub, exp |-> token.exp]
    ELSE PayloadNone

\* Tokens a client other than the agent process can present for uuid u at
\* time t: not a JWT, signed with another key, expired, expiring now, valid.
ForeignTokens(u, t) ==
    { [sub |-> u, exp |-> t + ACCESS_TOKEN_EXPIRE_MINUTES, wellformed |-> FALSE, signed |-> FALSE],
      [sub |-> u, exp |-> t + ACCESS_TOKEN_EXPIRE_MINUTES, wellformed |-> TRUE, signed |-> FALSE],
      [sub |-> u, exp |-> t - TickMinutes, wellformed |-> TRUE, signed |-> TRUE],
      [sub |-> u, exp |-> t, wellformed |-> TRUE, signed |-> TRUE],
      [sub |-> u, exp |-> t + ACCESS_TOKEN_EXPIRE_MINUTES, wellformed |-> TRUE, signed |-> TRUE] }

\* --------------------------------------------------------------- documents
Null == -1
\* A client_status document.  last_disconnected is the name under which the
\* DR monitor reads the time of the last disconnect.
NoDoc == [status |-> "none", connected_at |-> Null, last_disconnected_at |-> Null,
          last_disconnected |-> Null]

\* update_one({"system_uuid": u}, {"$set": {"status": s}}, upsert): the only
\* field the connection manager ever sets is status.
update_status(doc, s, upsert) ==
    IF doc = NoDoc /\ ~upsert THEN doc ELSE [doc EXCEPT !.status = s]

\* ---------------------------------------------------------------- records
UnusedConn == [uuid |-> "none", pc |-> "unused", open |-> FALSE]
UnusedCons == [uuid |-> "none", st |-> "unused", buf |-> <<>>, cur |-> [id |-> 0, type |-> "none"], skipped |-> {}]
EmptyInbox == [exists |-> FALSE, msgs |-> <<>>]
NoMut == [target |-> "none", result |-> "none", id |-> 0, type |-> "none"]

\* ---------------------------------------------- agent ledger (db_manager.py)
\* A JSON value of a job message.  iv = 0: the value as received; iv > 0: the
\* Fernet token of that value, which embeds a random 128-bit IV.
Plain(str) == [plain |-> str, iv |-> 0]
NoneValue == Plain("None")

CredentialFields == {"password", "aws_access_key_id", "aws_secret_access_key", "aws_session_token"}
DoS3Kinds == {"do_s3_repo_backup", "do_s3_repo_restore"}   \* startswith('do_s3_repo_')
LocalKinds == Kinds \ DoS3Kinds

\* A variant that stores the value as it was received.
encrypt_field_identity(input, n) == input

\* cipher_suite.encrypt(input.encode('utf-8')): None has no encode(), the
\* callers below test for None before they apply it.
encrypt_field(input, n) == [plain |-> input.plain, iv |-> n]

decrypt_field(input) == Plain(input.plain)

\* json.dumps(params, sort_keys=True): the items in the order of their keys
SortedKeys == <<"aws_access_key_id", "aws_secret_access_key", "aws_session_token", "bucket_name",
                "command_history", "password", "region", "repo_path", "scheduler_repeats", "type">>
normalize_params(params) ==
    LET ks == SelectSeq(SortedKeys, LAMBDA k : k \in DOMAIN params)
    IN [i \in 1..Len(ks) |-> <<ks[i], params[ks[i]]>>]

\* json.dumps(params): the items in the order the dispatcher inserted them
InsertionKeys == <<"type", "aws_access_key_id", "aws_secret_access_key", "aws_session_token", "region",
                   "bucket_name", "repo_path", "password", "command_history", "scheduler_repeats">>
json_dumps(params) ==
    LET ks == SelectSeq(InsertionKeys, LAMBDA k : k \in DOMAIN params)
    IN [i \in 1..Len(ks) |-> <<ks[i], params[ks[i]]>>]

\* The job messages the dispatcher builds (mutations.py), reduced to the keys
\* the ledger looks at.
LocalMessage(kind, repo, hist) ==
    [type |-> Plain(kind), repo_path |-> Plain(repo), password |-> Plain("pw"), command_history |-> hist]
S3Message(kind, bucket, tok, hist) ==
    [type |-> Plain(kind), aws_access_key_id |-> Plain("AKIA"), aws_secret_access_key |-> Plain("sk"),
     aws_session_token |-> tok, region |-> Plain("eu"), bucket_name |-> Plain(bucket),
     password |-> Plain("pw"), command_history |-> hist]
ScheduleMessage(repo, hist) ==
    [type |-> Plain("schedule_interval_get_local_repo_snapshots"), repo_path |-> Plain(repo),
     password |-> Plain("pw"), command_history |-> hist, scheduler_repeats |-> Plain("once")]

\* aws_session_token: Optional[str] = None in the mutation, "" or a token
SessionTokens == {NoneValue, Plain(""), Plain("tok")}
HistoryFlags == {NoneValue, Plain("true")}       \* command_history: Optional[bool] = None

ResponseTables == {"response_local_repo_snapshots", "response_s3_repo_restore",
                   "response_local_repo_backup", "response_local_repo_restore",
                   "response_s3_repo_backup"}
Tables == Kinds \cup ResponseTables \cup {"schedule_ledger"}
EmptyLedger == [t \in Tables |-> <<>>]

\* save_command, lines 168-177: the fields it replaces by their ciphertext
SaveCommandFields(command_type, params) ==
    (IF "password" \in DOMAIN params THEN {"password"} ELSE {})
    \cup (IF command_type \in DoS3Kinds
          THEN {"aws_access_key_id", "aws_secret_access_key"}
               \cup (IF params["aws_session_token"] # Plain("") THEN {"aws_session_token"} ELSE {})
          ELSE {})

\* save_scheduled_task, lines 204-214
SaveScheduledFields(params) ==
    {f \in CredentialFields \cap DOMAIN params :
        f = "aws_session_token" => params[f] # Plain("")}

\* encrypt_field(None) raises AttributeError, outside the try of its caller
EncryptRaises(params, fields) == \E f \in fields : params[f] = NoneValue

EncryptFields(params, fields, n) ==
    [k \in DOMAIN params |-> IF k \in fields THEN encrypt_field(params[k], n) ELSE params[k]]

\* SELECT COUNT(*) FROM table WHERE params = ?
CountRows(rows, p) == Cardinality({i \in 1..Len(rows) : rows[i].params = p})

\* INSERT INTO table (params, response, response_timestamp)
InsertRow(led, table, row) == [led EXCEPT ![table] = Append(@, row)]

\* save_command run without interruption: what a handler's call does when no
\* other coroutine touches the table meanwhile.
SaveCommand(led, command_type, params, response, n) ==
    LET fields == SaveCommandFields(command_type, params)
        p == normalize_params(EncryptFields(params, fields, n))
    IN IF CountRows(led[command_type], p) = 0
       THEN InsertRow(led, command_type, [params |-> p, response |-> response])
       ELSE led

\* update_schtask: insert the response unless an equal one is stored
\* (SELECT COUNT(*) FROM table WHERE response = ?; the response tables have
\* no params column)
update_schtask(led, response) ==
    IF \A i \in 1..Len(led[response.type]) : led[response.type][i].response # response
    THEN InsertRow(led, response.type, [params |-> <<>>, response |-> response])
    ELSE led

\* ------------------------------------------- agent handlers (handlers.py)
ScheduleTypes == {"schedule_interval_get_local_repo_snapshots",
                  "schedule_timelapse_get_local_repo_snapshots"}
ProgressKinds == {"do_local_repo_backup", "do_local_repo_restore",
                  "do_s3_repo_backup", "do_s3_repo_restore"}

\* "type" of the response each handler builds
ResponseType(kind) ==
    CASE kind = "init_local_repo" -> "response_init_local_repo"
      [] kind = "get_local_repo_snapshots" -> "response_local_repo_snapshots"
      [] kind = "do_local_repo_backup" -> "response_local_repo_backup"
      [] kind = "do_local_repo_restore" -> "response_local_repo_restore"
      [] kind = "do_s3_repo_backup" -> "response_s3_repo_backup"
      [] kind = "do_s3_repo_restore" -> "response_s3_repo_restore"

\* message_to_server: target is repo_path or s3_url ("none": the key is not
\* in the message), payload is summary, snapshots, backup_output or
\* restore_output, task_uuid 0 and task_status "none": not in the message.
Response(type, task_uuid, target, payload, task_status) ==
    [type |-> type, task_uuid |-> task_uuid, target |-> target, payload |-> payload,
     task_status |-> task_status]
NoResponse == Response("none", 0, "none", "none", "none")

\* repo_path, or the restic repository s3:s3.<region>.amazonaws.com/<bucket>
Target(msg) == IF msg.type.plain \in DoS3Kinds THEN msg.bucket_name.plain ELSE msg.repo_path.plain

NoMessage == LocalMessage("none", "none", NoneValue)
\* at: the time the run started
IdleRun == [pc |-> "idle", nr |-> 0, at |-> 0, msg |-> NoMessage, task_uuid |-> 0, outcome |-> "none",
            resp |-> NoResponse, events |-> <<>>]

\* command_history = params.get('command_history', True): the key is always
\* in the message, so an omitted argument reads as None
HistoryOn(msg) == msg.command_history = Plain("true")

SnapshotLists == {"s1", "s2"}
ToolOutcomes == {"ok", "nonzero", "nosummary"}

\* ------------------------------------ result store (backup_recovery/handlers.py)
Collections == {"initialized_local_repos", "local_repo_snapshots", "local_repo_backups",
                "local_repo_restores", "s3_repo_backups", "s3_repo_snapshots"}
Absent == "absent"
DocFields == {"systemUuid", "repo_path", "s3_url", "summary", "snapshots", "backup_output",
              "restore_output", "task_uuid", "task_status", "response_timestamp"}
AbsentField(f) == IF f = "response_timestamp" THEN Null ELSE IF f = "task_uuid" THEN 0 ELSE Absent

\* collection.update_one(filter on keys, {"$set": the fields of doc in setFields}, upsert=True)
update_one(docs, keys, doc, setFields) ==
    LET matches == {d \in docs : \A k \in keys : d[k] = doc[k]}
    IN IF matches = {}
       THEN docs \cup {[f \in DocFields |-> IF f \in keys \cup setFields THEN doc[f] ELSE AbsentField(f)]}
       ELSE LET d == CHOOSE d \in matches : TRUE
            IN (docs \ {d}) \cup {[f \in DocFields |-> IF f \in setFields THEN doc[f] ELSE d[f]]}

EmptyDoc == [f \in DocFields |-> AbsentField(f)]

SaverIds == 1..2
IdleSaver == [pc |-> "idle", table |-> "none", params |-> <<>>, received |-> <<>>, count |-> 0]

\* ------------------------------------------------- DR monitor (dr_mon.py)
\* DR_monitoring_threshold, a string "PT<h>H<m>M<s>S" with every part
\* optional: the numbers it holds (Null: the part is not in the string);
\* given is FALSE when the policy entry has no threshold.
Threshold(given, h, m, s) == [given |-> given, h |-> h, m |-> m, s |-> s]
NoThreshold == Threshold(FALSE, Null, Null, Null)
Thresholds == {Threshold(TRUE, 0, 15, Null),      \* "PT0H15M"
               Threshold(TRUE, Null, 15, Null),   \* "PT15M"
               NoThreshold}

PolicyEntry(org, u, enabled, threshold, restore_config) ==
    [org |-> org, agent_uuid |-> u, enabled |-> enabled, DR_monitoring_threshold |-> threshold,
     restore_config |-> restore_config]

\* The policies the monitor is started with: ORGS.org1.DR.agents, in file order.
Policies ==
    {<<PolicyEntry("org1", "A", en, th, rc), PolicyEntry("org1", "B", enB, Threshold(TRUE, 0, 15, Null), "cfgB")>> :
        en \in BOOLEAN, th \in Thresholds, rc \in {"cfgA", "none"}, enB \in BOOLEAN}

\* The client_status documents the monitor can find when it starts.
LivenessDocs ==
    {NoDoc} \cup
    {[status |-> "disconnected", connected_at |-> c, last_disconnected_at |-> Null, last_disconnected |-> 0] :
        c \in {Null, 0}} \cup
    {[status |-> "connected", connected_at |-> 0, last_disconnected_at |-> Null, last_disconnected |-> d] :
        d \in {Null, 0}}

\* pass: the passes of the monitoring loop that are over, counted up to MaxPasses
NoMonitor == [policy |-> <<>>, pos |-> 1, log |-> <<>>, pass |-> 0]

\* The agent process before agent() runs.  running is the module's shutdown
\* flag; retry_attempts is the local counter of obtain_jwt and then the one of
\* agent(); sleep_left is the number of iterations interruptible_sleep has
\* left and back the loop it returns to.  failed counts the attempts that
\* failed since the last success and waited is the wait after the last of
\* them; late counts the 1-second steps that ended after the flag was cleared.
NoAgent ==
    [pc |-> "auth", token |-> NoToken, ws |-> NoConn, consumer_task |-> NoConn,
     running |-> TRUE, retry_attempts |-> 0, sleep_left |-> 0, back |-> "none",
     failed |-> 0, waited |-> 0, late |-> 0]

\* ------------------------------------------------------------ initial states
InitChannel ==
    /\ now = 0
    /\ started = FALSE
    /\ rabbit_connected = FALSE
    /\ active_connections = [u \in Agents |-> NoConn]
    /\ queues = [u \in Agents |-> NoQueue]
    /\ conn = [c \in ConnIds |-> UnusedConn]
    /\ nconn = 0
    /\ lastOpen = [uuid |-> "none", token |-> NoToken, org |-> NoOrg, code |-> 0]
    /\ inbox = [u \in Agents |-> EmptyInbox]
    /\ cons = [c \in ConnIds |-> UnusedCons]
    /\ agent = [u \in Agents |-> NoAgent]
    /\ nmut = 0
    /\ lastMut = NoMut
    /\ invoked = [u \in Agents |-> <<>>]
    /\ handled = {}

\* An agent whose consumer holds an open websocket, an empty bkpmgt.db, an
\* empty result store.
InitJobs ==
    /\ ledger = [u \in Agents |-> EmptyLedger]
    /\ nonce = 0
    /\ saver = [i \in SaverIds |-> IdleSaver]
    /\ run = [u \in Agents |-> IdleRun]
    /\ nrun = 0
    /\ ws_state = [u \in Agents |-> "OPEN"]
    /\ upstream = [u \in Agents |-> <<>>]
    /\ store = [c \in Collections |-> {}]
    /\ repos = [u \in Agents |-> {}]
    /\ responded = {}

Init ==
    /\ InitChannel
    /\ status_collection = [u \in Agents |-> NoDoc]
    /\ InitJobs
    /\ dr = NoMonitor

\* The DR monitor starts on a policy document and a client_status collection.
InitDR ==
    /\ InitChannel
    /\ status_collection \in [Agents -> LivenessDocs]
    /\ InitJobs
    /\ dr \in {[NoMonitor EXCEPT !.policy = p] : p \in Policies}

\* ------------------------------------------------------------------- clock
Tick ==
    /\ now + TickMinutes <= MaxTime
    /\ now' = now + TickMinutes
    /\ UNCHANGED <<extVars, srvVars, conn, nconn, lastOpen, inbox, cons, agent, nmut, lastMut, invoked, handled>>

\* ------------------------------------------------- controller: startup
\* startup_event -> ConnectionManager.connect_to_rabbit: the flag records
\* whether aio_pika.connect_robust succeeded.
connect_to_rabbit(ok) ==
    /\ ~started
    /\ started' = TRUE
    /\ rabbit_connected' = ok
    /\ UNCHANGED <<extVars, now, active_connections, queues, status_collection, conn, nconn, lastOpen, inbox,
                   cons, agent, nmut, lastMut, invoked, handled>>

\* ------------------------------------------------- controller: channel open
\* An endpoint head in which connect does not look at rabbit_connected.
EndpointHead_no_broker_check(token) ==
    IF verify_access_token(token, now) = PayloadNone THEN CLOSE_UNAUTHORIZED ELSE 0

\* websocket_endpoint up to its first suspension: verify the token, then
\* ConnectionManager.connect's broker check.  The org parameter of the
\* request is not read.
EndpointHead(token) ==
    IF verify_access_token(token, now) = PayloadNone THEN CLOSE_UNAUTHORIZED
    ELSE IF ~rabbit_connected THEN CLOSE_BROKER_DOWN
    ELSE 0

\* A channel-open request for uuid u is served: it is closed with a code, or
\* its coroutine goes on to `await websocket.accept()`.
websocket_endpoint(u, token, org) ==
    /\ started
    /\ lastOpen' = [uuid |-> u, token |-> token, org |-> org, code |-> EndpointHead(token)]
    /\ IF EndpointHead(token) = 0
       THEN /\ nconn < MaxConns
            /\ nconn' = nconn + 1
            /\ conn' = [conn EXCEPT ![nconn + 1] = [uuid |-> u, pc |-> "accepting", open |-> FALSE]]
       ELSE UNCHANGED <<nconn, conn>>

\* A request for the channel of uuid u from a client that is not u's agent
\* process (any holder of a token, or of none).
ForeignOpen(u, token, org) ==
    /\ websocket_endpoint(u, token, org)
    /\ UNCHANGED <<extVars, now, srvVars, inbox, cons, agent, nmut, lastMut, invoked, handled>>

\* ConnectionManager.connect after `await websocket.accept()`:
\* active_connections[system_uuid] = websocket, then the status write is awaited.
connect_accept(c) ==
    /\ conn[c].pc = "accepting"
    /\ active_connections' = [active_connections EXCEPT ![conn[c].uuid] = c]
    /\ conn' = [conn EXCEPT ![c].pc = "status", ![c].open = TRUE]
    /\ UNCHANGED <<extVars, now, started, rabbit_connected, queues, status_collection, nconn, lastOpen, inbox,
                   cons, agent, nmut, lastMut, invoked, handled>>

\* ConnectionManager.connect: status_collection.update_one(..., {"status": "connected"}, upsert=True)
connect_status(c) ==
    /\ conn[c].pc = "status"
    /\ status_collection' = [status_collection EXCEPT
                               ![conn[c].uuid] = update_status(@, "connected", TRUE)]
    /\ conn' = [conn EXCEPT ![c].pc = "declare"]
    /\ UNCHANGED <<extVars, now, started, rabbit_connected, active_connections, queues, nconn, lastOpen, inbox,
                   cons, agent, nmut, lastMut, invoked, handled>>

\* ConnectionManager.create_queue: declare the durable queue_<uuid> (an
\* existing queue keeps its messages) and store it in manager.queues.
create_queue(c) ==
    /\ conn[c].pc = "declare"
    /\ IF rabbit_connected
       THEN /\ inbox' = [inbox EXCEPT ![conn[c].uuid].exists = TRUE]
            /\ queues' = [queues EXCEPT ![conn[c].uuid] = conn[c].uuid]
       ELSE UNCHANGED <<inbox, queues>>
    /\ conn' = [conn EXCEPT ![c].pc = "receiving"]
    /\ UNCHANGED <<extVars, now, started, rabbit_connected, active_connections, status_collection, nconn, lastOpen,
                   cons, agent, nmut, lastMut, invoked, handled>>

\* The transport of an open channel closes (peer close or network loss).
Drop(c) ==
    /\ conn[c].open
    /\ conn' = [conn EXCEPT ![c].open = FALSE]
    /\ UNCHANGED <<extVars, now, srvVars, nconn, lastOpen, inbox, cons, agent, nmut, lastMut, invoked, handled>>

\* receive_data: WebSocketDisconnect -> ConnectionManager.disconnect, first
\* segment: websocket = active_connections.pop(system_uuid, None); nothing
\* more is done when the pop returned None.
disconnect_pop(c) ==
    /\ conn[c].pc = "receiving"
    /\ ~conn[c].open
    /\ active_connections' = [active_connections EXCEPT ![conn[c].uuid] = NoConn]
    /\ conn' = [conn EXCEPT ![c].pc =
                   IF active_connections[conn[c].uuid] = NoConn THEN "done" ELSE "disc_status"]
    /\ UNCHANGED <<extVars, now, started, rabbit_connected, queues, status_collection, nconn, lastOpen, inbox,
                   cons, agent, nmut, lastMut, invoked, handled>>

\* disconnect: status_collection.update_one(..., {"status": "disconnected"})
disconnect_status(c) ==
    /\ conn[c].pc = "disc_status"
    /\ status_collection' = [status_collection EXCEPT
                               ![conn[c].uuid] = update_status(@, "disconnected", FALSE)]
    /\ conn' = [conn EXCEPT ![c].pc = "disc_queue"]
    /\ UNCHANGED <<extVars, now, started, rabbit_connected, active_connections, queues, nconn, lastOpen, inbox,
                   cons, agent, nmut, lastMut, invoked, handled>>

\* disconnect: queue = self.queues.pop(system_uuid, None)
disconnect_queue(c) ==
    /\ conn[c].pc = "disc_queue"
    /\ queues' = [queues EXCEPT ![conn[c].uuid] = NoQueue]
    /\ conn' = [conn EXCEPT ![c].pc =
                   IF queues[conn[c].uuid] = NoQueue THEN "done" ELSE "disc_delete"]
    /\ UNCHANGED <<extVars, now, started, rabbit_connected, active_connections, status_collection, nconn, lastOpen,
                   inbox, cons, agent, nmut, lastMut, invoked, handled>>

\* disconnect: channel.queue_delete(queue.name).  A forced delete removes the
\* queue with its pending messages and cancels its consumers; an exception
\* is logged and the queue stays.
queue_delete(c, ok) ==
    /\ conn[c].pc = "disc_delete"
    /\ conn' = [conn EXCEPT ![c].pc = "done"]
    /\ IF ok
       THEN /\ inbox' = [inbox EXCEPT ![conn[c].uuid] = EmptyInbox]
            /\ cons' = [k \in ConnIds |->
                          IF cons[k].uuid = conn[c].uuid /\ cons[k].st = "consuming"
                          THEN [cons[k] EXCEPT !.st = "orphaned"] ELSE cons[k]]
       ELSE UNCHANGED <<inbox, cons>>
    /\ UNCHANGED <<extVars, now, srvVars, nconn, lastOpen, agent, nmut, lastMut, invoked, handled>>

\* ------------------------------------------------- controller: dispatcher
NoMsg == [id |-> 0, type |-> "none"]
NotConnected == "Error: Client not connected"
QueueNotFound == "Error: Queue not found for the client"
InvalidRepeats == "Error: Invalid scheduler_repeats input!"
InvalidScheduler == "Error: Invalid scheduler"
RaisedValueError == "raised ValueError"

\* The acknowledgement each mutation returns after publishing.
Ack(kind) ==
    CASE kind = "init_local_repo" -> "Task allocated to initialize local repo"
      [] kind = "get_local_repo_snapshots" -> "Task allocated to retrieve snapshots for local repo"
      [] kind = "do_local_repo_backup" -> "Task allocated to backup to local repo"
      [] kind = "do_local_repo_restore" -> "Task allocated to restore from local repo"
      [] kind = "do_s3_repo_backup" -> "Task allocated to backup to s3 repo"
      [] kind = "do_s3_repo_restore" -> "Task allocated to restore from s3 repo"

Acks == {Ack(k) : k \in Kinds}

\* Scheduling arguments of get_local_repo_snapshots ("none": not given).
NoSched == [scheduler |-> "none", repeats |-> "none", timelapse |-> "none"]
SchedInputs ==
    [scheduler : {"none", "interval", "timelapse", "cron"},
     repeats : {"none", "once", "3", "0", "-1", "abc"},
     timelapse : {"none", "iso", "malformed"}]

IntStrings == {"3", "0", "-1"}
ParseInt(str) == CASE str = "3" -> 3 [] str = "0" -> 0 [] str = "-1" -> -1

RepeatsNotPositive == "Error: 'scheduler_repeats' must be a positive integer"
RepeatsNotValid == "Error: 'scheduler_repeats' must be either 'once', 'infinite', or a positive integer"

validate_scheduler_repeats(r) ==
    IF r = "none" THEN "none"
    ELSE IF r = "once" \/ r = "infinite" THEN r
    ELSE IF r \in IntStrings
         THEN (IF ParseInt(r) > 0 THEN r ELSE RepeatsNotPositive)
         ELSE RepeatsNotValid

\* `"Error" in validation`
ContainsError(v) == v \in {RepeatsNotPositive, RepeatsNotValid}

\* task_map.get(scheduler, "get_local_repo_snapshots")
SnapshotsTaskType(sch) ==
    CASE sch.scheduler = "interval" -> "schedule_interval_get_local_repo_snapshots"
      [] sch.scheduler = "timelapse" -> "schedule_timelapse_get_local_repo_snapshots"
      [] OTHER -> "get_local_repo_snapshots"

\* The `if scheduler:` block of get_local_repo_snapshots: the string it
\* returns, the exception that leaves it, or "ok".
SchedulerBlock(sch) ==
    IF sch.scheduler = "none" THEN "ok"
    ELSE IF ContainsError(validate_scheduler_repeats(sch.repeats)) THEN InvalidRepeats
    ELSE IF sch.scheduler \notin {"interval", "timelapse"} THEN InvalidScheduler
    ELSE IF sch.scheduler = "timelapse" /\ sch.timelapse = "malformed" THEN RaisedValueError
    ELSE "ok"

\* What a mutation returns, and the type of the message it publishes ("none": nothing).
Dispatch(kind, u, sch) ==
    IF active_connections[u] = NoConn
    THEN [result |-> NotConnected, type |-> "none"]
    ELSE IF kind = "get_local_repo_snapshots" /\ SchedulerBlock(sch) # "ok"
    THEN [result |-> SchedulerBlock(sch), type |-> "none"]
    ELSE IF queues[u] = NoQueue
    THEN [result |-> QueueNotFound, type |-> "none"]
    ELSE [result |-> Ack(kind),
          type |-> IF kind = "get_local_repo_snapshots" THEN SnapshotsTaskType(sch) ELSE kind]

\* A publish that reaches every declared queue instead of the routing key's.
pub_msg_fanout(q, msg) ==
    [u \in Agents |-> IF inbox[u].exists
                      THEN [inbox[u] EXCEPT !.msgs = Append(@, msg)]
                      ELSE inbox[u]]

\* channel.default_exchange.publish(message, routing_key=queue.name): the
\* broker appends to the queue of that name; with no such queue the message
\* is unroutable and dropped.
pub_msg(q, msg) ==
    IF inbox[q].exists
    THEN [inbox EXCEPT ![q].msgs = Append(@, msg)]
    ELSE inbox

\* One call of a dispatch mutation.  Only get_local_repo_snapshots reads
\* scheduling arguments.
Mutation(kind, u, sch) ==
    /\ started
    /\ nmut < MaxMuts
    /\ LET d == Dispatch(kind, u, sch)
           id == nmut + 1
       IN /\ nmut' = id
          /\ lastMut' = [target |-> u, result |-> d.result, type |-> d.type,
                         id |-> IF d.type = "none" THEN 0 ELSE id]
          /\ inbox' = IF d.type = "none" THEN inbox
                      ELSE pub_msg(queues[u], [id |-> id, type |-> d.type])
    /\ UNCHANGED <<extVars, now, srvVars, conn, nconn, lastOpen, cons, agent, invoked, handled>>

\* A client of the broker other than the dispatcher publishes a message to
\* the inbox of agent u: its type is not in the agent's dispatch table, or
\* the body has no "type" key.
UnknownTypes == {"unknown_type", "missing"}

ForeignPublish(u, type) ==
    /\ nmut < MaxMuts
    /\ inbox[u].exists
    /\ nmut' = nmut + 1
    /\ lastMut' = [target |-> u, result |-> "published", type |-> type, id |-> nmut + 1]
    /\ inbox' = pub_msg(u, [id |-> nmut + 1, type |-> type])
    /\ UNCHANGED <<extVars, now, srvVars, conn, nconn, lastOpen, cons, agent, invoked, handled>>

\* ------------------------------------------------- agent: control loop
\* agent(): the token is obtained once, before the connect loop.
obtain_jwt(u) ==
    /\ started
    /\ agent[u].pc = "auth"
    /\ agent' = [agent EXCEPT ![u].pc = "connect", ![u].token = create_access_token(u, now)]
    /\ UNCHANGED <<extVars, now, srvVars, conn, nconn, lastOpen, inbox, cons, nmut, lastMut, invoked, handled>>

\* agent(): websockets.connect(uri); the uri always carries an org parameter.
\* A rejected handshake raises, and the loop retries after its backoff.
AgentOpen(u) ==
    /\ agent[u].pc = "connect"
    /\ websocket_endpoint(u, agent[u].token, "org1")
    /\ agent' = IF EndpointHead(agent[u].token) = 0
                THEN [agent EXCEPT ![u].pc = "handshake", ![u].ws = nconn + 1]
                ELSE agent
    /\ UNCHANGED <<extVars, now, srvVars, inbox, cons, nmut, lastMut, invoked, handled>>

\* The unacknowledged messages a consumer holds go back to the head of its
\* queue when its connection closes, if it is still subscribed.
Requeue(k, msgs) ==
    IF cons[k].st = "consuming" /\ inbox[cons[k].uuid].exists
    THEN [inbox EXCEPT ![cons[k].uuid].msgs = msgs \o @]
    ELSE inbox

\* agent(), inside `async with websockets.connect`: connect to the broker and
\* create a consumer task for this channel.  The consumer task of the
\* previous channel is neither cancelled nor awaited.  When the broker
\* connect fails, the latest consumer task is cancelled, its connection is
\* closed and the channel is left (which closes it); a message whose handler
\* is interrupted is rejected or requeued, whichever of cancel and close wins.
AgentStartConsumer(u, ok, requeueCur) ==
    /\ agent[u].pc = "handshake"
    /\ conn[agent[u].ws].pc # "accepting"
    /\ LET w == agent[u].ws
           old == agent[u].consumer_task
       IN IF ok
          THEN /\ cons' = [cons EXCEPT ![w] = [UnusedCons EXCEPT !.uuid = u, !.st = "starting"]]
               /\ agent' = [agent EXCEPT ![u].pc = "loop", ![u].consumer_task = w]
               /\ requeueCur = FALSE
               /\ UNCHANGED <<conn, inbox>>
          ELSE /\ agent' = [agent EXCEPT ![u].pc = "connect"]
               /\ conn' = [conn EXCEPT ![w].open = FALSE]
               /\ IF old = NoConn \/ cons[old].st = "cancelled"
                  THEN requeueCur = FALSE /\ UNCHANGED <<cons, inbox>>
                  ELSE /\ cons' = [cons EXCEPT ![old] = [@ EXCEPT !.st = "cancelled", !.buf = <<>>, !.cur = NoMsg]]
                       /\ (cons[old].cur = NoMsg => requeueCur = FALSE)
                       /\ inbox' = Requeue(old, (IF requeueCur THEN <<cons[old].cur>> ELSE <<>>)
                                                 \o cons[old].buf)
    /\ UNCHANGED <<extVars, now, srvVars, nconn, lastOpen, nmut, lastMut, invoked, handled>>

\* agent() main loop: `if websocket.state != OPEN: break`; the outer loop then
\* opens the next channel.
AgentPoll(u) ==
    /\ agent[u].pc = "loop"
    /\ ~conn[agent[u].ws].open
    /\ agent' = [agent EXCEPT ![u].pc = "connect"]
    /\ UNCHANGED <<extVars, now, srvVars, conn, nconn, lastOpen, inbox, cons, nmut, lastMut, invoked, handled>>

\* ------------------------------------------------- agent: supervisor
\* The control flow of obtain_jwt, agent() and interruptible_sleep with the
\* controller and the broker seen from outside: a request succeeds or fails.
Min2(a, b) == IF a <= b THEN a ELSE b

\* wait_time = min(backoff_factor ** retry_attempts, max_backoff_time)
wait_time_uncapped(n, cap) == backoff_factor ^ n
wait_time(n, cap) == Min2(backoff_factor ^ n, cap)

\* handle_shutdown: the signal handler clears the flag, at any point.
handle_shutdown(u) ==
    /\ agent[u].running
    /\ agent[u].pc # "returned"
    /\ agent' = [agent EXCEPT ![u].running = FALSE]
    /\ UNCHANGED <<extVars, now, srvVars, conn, nconn, lastOpen, inbox, cons, nmut, lastMut, invoked, handled>>

\* A failed attempt: retry_attempts += 1, wait_time computed, and
\* interruptible_sleep(wait_time) called.
Backoff(a, cap, back) ==
    [a EXCEPT !.retry_attempts = @ + 1,
              !.failed = @ + 1,
              !.sleep_left = wait_time(a.retry_attempts + 1, cap),
              !.waited = wait_time(a.retry_attempts + 1, cap),
              !.back = back,
              !.pc = "sleep"]

\* obtain_jwt, one iteration of `while retry_attempts < max_retries`; when
\* it returns None, agent() logs and returns.
obtain_jwt_attempt(u, ok) ==
    /\ agent[u].pc = "auth"
    /\ agent' = [agent EXCEPT ![u] =
          IF @.retry_attempts >= max_retries \/ ~@.running
          THEN [@ EXCEPT !.pc = "returned"]
          ELSE IF ok
               THEN [@ EXCEPT !.pc = "connect", !.token = create_access_token(u, now),
                              !.retry_attempts = 0, !.failed = 0, !.waited = 0]
               ELSE Backoff(@, auth_max_backoff_time, "auth")]
    /\ UNCHANGED <<extVars, now, srvVars, conn, nconn, lastOpen, inbox, cons, nmut, lastMut, invoked, handled>>

\* agent(), head of `while running` and websockets.connect(uri): the loop is
\* left when the flag is cleared; a refused connect raises into the outer
\* except clause.
agent_connect(u, ok) ==
    /\ agent[u].pc = "connect"
    /\ (agent[u].running /\ ~ok) => agent[u].retry_attempts < MaxRetries
    /\ agent' = [agent EXCEPT ![u] =
          IF ~@.running
          THEN [@ EXCEPT !.pc = "returned"]
          ELSE IF ok
               THEN [@ EXCEPT !.pc = "broker"]
               ELSE Backoff(@, max_backoff_time, "connect")]
    /\ UNCHANGED <<extVars, now, srvVars, conn, nconn, lastOpen, inbox, cons, nmut, lastMut, invoked, handled>>

\* agent(), inside `async with`: aio_pika.connect_robust; on success the
\* consumer task is created and retry_attempts reset; on failure the inner
\* except clause cleans up and the outer loop goes on, without a wait.
agent_connect_rabbit(u, ok) ==
    /\ agent[u].pc = "broker"
    /\ agent' = [agent EXCEPT ![u] =
          IF ok
          THEN [@ EXCEPT !.pc = "loop", !.retry_attempts = 0, !.failed = 0, !.waited = 0]
          ELSE [@ EXCEPT !.pc = "connect"]]
    /\ UNCHANGED <<extVars, now, srvVars, conn, nconn, lastOpen, inbox, cons, nmut, lastMut, invoked, handled>>

\* agent() main loop, one iteration of the inner `while running`.
agent_main_loop(u, open) ==
    /\ agent[u].pc = "loop"
    /\ agent' = [agent EXCEPT ![u] =
          IF ~@.running \/ ~open
          THEN [@ EXCEPT !.pc = "connect"]
          ELSE [@ EXCEPT !.pc = "sleep", !.sleep_left = LoopSleep, !.back = "loop"]]
    /\ UNCHANGED <<extVars, now, srvVars, conn, nconn, lastOpen, inbox, cons, nmut, lastMut, invoked, handled>>

\* agent() once the flag is cleared: the inner and the outer `while running`
\* end, `async with` closes the websocket, and the cleanup after the loops
\* runs consumer_task.cancel() and rabbit_connection.close().  The consumer
\* task does not read the flag; a handler it is awaiting is interrupted at
\* its await, and its message is rejected or requeued, whichever of cancel
\* and close wins.
agent_exit(u, requeueCur) ==
    /\ agent[u].pc \in {"loop", "connect"}
    /\ ~agent[u].running
    /\ LET w == agent[u].ws
           old == agent[u].consumer_task
       IN /\ agent' = [agent EXCEPT ![u].pc = "returned"]
          /\ conn' = IF agent[u].pc = "loop" THEN [conn EXCEPT ![w].open = FALSE] ELSE conn
          /\ IF old = NoConn \/ cons[old].st = "cancelled"
             THEN requeueCur = FALSE /\ UNCHANGED <<cons, inbox>>
             ELSE /\ cons' = [cons EXCEPT ![old] = [@ EXCEPT !.st = "cancelled", !.buf = <<>>, !.cur = NoMsg]]
                  /\ (cons[old].cur = NoMsg => requeueCur = FALSE)
                  /\ inbox' = Requeue(old, (IF requeueCur THEN <<cons[old].cur>> ELSE <<>>)
                                            \o cons[old].buf)
    /\ UNCHANGED <<extVars, now, srvVars, nconn, lastOpen, nmut, lastMut, invoked, handled>>

\* interruptible_sleep: `if not running: break`
SleepBreaks_never(a) == FALSE
SleepBreaks(a) == ~a.running

\* interruptible_sleep, head of one iteration of `for _ in range(duration)`.
interruptible_sleep(u) ==
    /\ agent[u].pc = "sleep"
    /\ agent' = [agent EXCEPT ![u] =
          IF @.sleep_left = 0 \/ SleepBreaks(@)
          THEN [@ EXCEPT !.pc = agent[u].back, !.sleep_left = 0, !.back = "none"]
          ELSE [@ EXCEPT !.pc = "step"]]
    /\ UNCHANGED <<extVars, now, srvVars, conn, nconn, lastOpen, inbox, cons, nmut, lastMut, invoked, handled>>

\* interruptible_sleep: `await asyncio.sleep(step)` is over.
asyncio_sleep(u) ==
    /\ agent[u].pc = "step"
    /\ agent' = [agent EXCEPT ![u] =
          [@ EXCEPT !.pc = "sleep", !.sleep_left = @ - 1,
                    !.late = IF agent[u].running THEN @ ELSE @ + 1]]
    /\ UNCHANGED <<extVars, now, srvVars, conn, nconn, lastOpen, inbox, cons, nmut, lastMut, invoked, handled>>

\* ------------------------------------------------- agent: inbox consumer
\* A table that has a handler for every type.
DispatchTable_all == Kinds \cup UnknownTypes

\* dispatch_table of consume_messages
DispatchTable == Kinds

\* consume_messages: channel.declare_queue(queue_<uuid>, durable=True) and the
\* start of `async for message in queue`.  No QoS is set on this channel.
consume_declare(k) ==
    /\ cons[k].st = "starting"
    /\ cons' = [cons EXCEPT ![k].st = "consuming"]
    /\ inbox' = [inbox EXCEPT ![cons[k].uuid].exists = TRUE]
    /\ UNCHANGED <<extVars, now, srvVars, conn, nconn, lastOpen, agent, nmut, lastMut, invoked, handled>>

\* The broker pushes the head of the queue to one of its consumers; the
\* message stays unacknowledged in the consumer's iterator buffer.
Deliver(k) ==
    /\ cons[k].st = "consuming"
    /\ inbox[cons[k].uuid].exists
    /\ inbox[cons[k].uuid].msgs # <<>>
    /\ cons' = [cons EXCEPT ![k].buf = Append(@, Head(inbox[cons[k].uuid].msgs))]
    /\ inbox' = [inbox EXCEPT ![cons[k].uuid].msgs = Tail(@)]
    /\ UNCHANGED <<extVars, now, srvVars, conn, nconn, lastOpen, agent, nmut, lastMut, invoked, handled>>

\* consume_messages loop body, up to the handler's first await: the next
\* buffered message is taken and `await handler(message_data, websocket)` starts.
handler_begin(k) ==
    /\ cons[k].st \in {"consuming", "orphaned"}
    /\ cons[k].cur = NoMsg
    /\ cons[k].buf # <<>>
    /\ Head(cons[k].buf).type \in DispatchTable
    /\ cons' = [cons EXCEPT ![k].cur = Head(cons[k].buf), ![k].buf = Tail(@)]
    /\ invoked' = [invoked EXCEPT ![cons[k].uuid] = Append(@, Head(cons[k].buf).id)]
    /\ UNCHANGED <<extVars, now, srvVars, conn, nconn, lastOpen, inbox, agent, nmut, lastMut, handled>>

\* consume_messages loop body for a type without a handler: schedule_ types
\* end in the except clause (ScheduleManager has no handle_scheduled_task),
\* and so does a message without a type (None.startswith); other types are
\* logged as unknown.  message.process() acknowledges the message, or
\* rejects it without requeue when the body raised: it leaves the queue.
\* skipped: the ids of the messages that went this way.
consume_skip(k) ==
    /\ cons[k].st \in {"consuming", "orphaned"}
    /\ cons[k].cur = NoMsg
    /\ cons[k].buf # <<>>
    /\ Head(cons[k].buf).type \notin DispatchTable
    /\ cons' = [cons EXCEPT ![k].buf = Tail(@), ![k].skipped = @ \cup {Head(cons[k].buf).id}]
    /\ UNCHANGED <<extVars, now, srvVars, conn, nconn, lastOpen, inbox, agent, nmut, lastMut, invoked, handled>>

\* The handler returns and message.process() acknowledges the message.
handler_end(k) ==
    /\ cons[k].cur # NoMsg
    /\ cons' = [cons EXCEPT ![k].cur = NoMsg]
    /\ handled' = handled \cup {cons[k].cur.id}
    /\ UNCHANGED <<extVars, now, srvVars, conn, nconn, lastOpen, inbox, agent, nmut, lastMut, invoked>>

\* ------------------------------------------- agent ledger: save_command
MaxSaves == 3      \* calls of save_command and save_scheduled_task over a run

LedgerAgent == "A"

\* The job messages whose handlers call save_command (the handlers pass the
\* message itself as params).
SavedMessages ==
    {LocalMessage("do_local_repo_backup", "r1", Plain("true"))}
    \cup {S3Message("do_s3_repo_backup", "b1", tok, Plain("true")) : tok \in SessionTokens}

\* save_command up to the SELECT: the credential fields are encrypted in
\* place, then the rows with these params are counted.
save_command_check(i, params, response) ==
    LET command_type == params.type.plain
        fields == SaveCommandFields(command_type, params)
        p == normalize_params(EncryptFields(params, fields, nonce + 1))
    IN /\ saver[i].pc = "idle"
       /\ nonce < MaxSaves
       /\ nonce' = nonce + 1
       /\ IF EncryptRaises(params, fields)
          THEN saver' = [saver EXCEPT ![i] = [IdleSaver EXCEPT !.received = normalize_params(params)]]
          ELSE saver' = [saver EXCEPT ![i] =
                   [pc |-> "checked", table |-> command_type, params |-> p,
                    received |-> normalize_params(params),
                    count |-> CountRows(ledger[LedgerAgent][command_type], p)]]
       /\ UNCHANGED <<chanVars, ledger, run, nrun, ws_state, upstream, store, repos, dr, responded>>

\* save_command after the SELECT: "if count == 0" insert and commit
save_command_insert(i, response) ==
    /\ saver[i].pc = "checked"
    /\ ledger' = IF saver[i].count = 0
                 THEN [ledger EXCEPT ![LedgerAgent] =
                          InsertRow(@, saver[i].table, [params |-> saver[i].params, response |-> response])]
                 ELSE ledger
    /\ saver' = [saver EXCEPT ![i].pc = "idle"]
    /\ UNCHANGED <<chanVars, nonce, run, nrun, ws_state, upstream, store, repos, dr, responded>>

\* save_scheduled_task: encrypt the credential fields that are present, then
\* INSERT INTO schedule_ledger (params, status)
save_scheduled_task(params) ==
    LET fields == SaveScheduledFields(params)
    IN /\ nonce < MaxSaves
       /\ nonce' = nonce + 1
       /\ ledger' = IF EncryptRaises(params, fields)
                    THEN ledger
                    ELSE [ledger EXCEPT ![LedgerAgent] =
                             InsertRow(@, "schedule_ledger",
                                       [params |-> json_dumps(EncryptFields(params, fields, nonce + 1)),
                                        response |-> "pending"])]
       /\ UNCHANGED <<chanVars, saver, run, nrun, ws_state, upstream, store, repos, dr, responded>>

\* ------------------------------------------------- agent: handler runs
MaxRuns == 2       \* jobs the consumers take from the inboxes over a run

\* The jobs in the inboxes: what the dispatcher published for each agent.
JobMessages(u) ==
    IF u = "A"
    THEN {LocalMessage("init_local_repo", "r1", NoneValue),
          LocalMessage("get_local_repo_snapshots", "r1", NoneValue),
          LocalMessage("do_local_repo_backup", "r1", Plain("true")),
          LocalMessage("do_local_repo_restore", "r1", NoneValue),
          S3Message("do_s3_repo_restore", "b1", Plain(""), NoneValue),
          ScheduleMessage("r1", Plain("true"))}
         \cup {S3Message("do_s3_repo_backup", "b1", tok, Plain("true")) : tok \in {NoneValue, Plain("tok")}}
    ELSE {LocalMessage("do_local_repo_backup", "r1", NoneValue)}

\* The jobs of the runs in which the result store is observed.
StoreMessages(u) ==
    IF u = "A"
    THEN {LocalMessage("init_local_repo", r, NoneValue) : r \in {"r1", "r2"}}
         \cup {LocalMessage("get_local_repo_snapshots", "r1", NoneValue),
               LocalMessage("do_local_repo_backup", "r1", NoneValue),
               LocalMessage("do_local_repo_restore", "r1", NoneValue),
               S3Message("do_s3_repo_backup", "b1", Plain("tok"), NoneValue)}
    ELSE {LocalMessage("get_local_repo_snapshots", "r1", NoneValue),
          S3Message("do_s3_repo_backup", "b1", Plain("tok"), NoneValue)}

\* "if not optype.startswith('schedule_') and websocket.state == State.OPEN"
SendsUpstream(optype, state) == optype \notin ScheduleTypes /\ state = "OPEN"

\* The first message_to_server of a backup or restore handler
ProcessingResponse(msg, task_uuid) ==
    Response(ResponseType(msg.type.plain), task_uuid, Target(msg), "", "processing")

\* A second message that names another task.
CompletedResponse_other_uuid(msg, task_uuid, summary) ==
    Response(ResponseType(msg.type.plain), task_uuid + 1, Target(msg), summary, "completed")

\* The second message_to_server, built after the summary line was found
CompletedResponse(msg, task_uuid, summary) ==
    Response(ResponseType(msg.type.plain), task_uuid, Target(msg), summary, "completed")

Event(r, via) == [resp |-> r, via |-> via]
Spawned == [resp |-> NoResponse, via |-> "spawn"]

\* The emission block of the handlers: websocket.send, else update_schtask.
Emit(u, optype, r) ==
    LET send == SendsUpstream(optype, ws_state[u])
    IN /\ upstream' = IF send THEN [upstream EXCEPT ![u] = Append(@, r)] ELSE upstream
       /\ ledger' = IF send THEN ledger ELSE [ledger EXCEPT ![u] = update_schtask(@, r)]

Via(u, optype) == IF SendsUpstream(optype, ws_state[u]) THEN "upstream" ELSE "ledger"

\* The channel of an agent drops: the socket its consumer holds is closed.
ws_close(u) ==
    /\ ws_state[u] = "OPEN"
    /\ ws_state' = [ws_state EXCEPT ![u] = "CLOSED"]
    /\ UNCHANGED <<chanVars, ledger, nonce, saver, run, nrun, upstream, store, repos, dr, responded>>

\* agent(): the channel is re-opened and a consumer is started on the new
\* socket, between two jobs.
ws_reopen(u) ==
    /\ ws_state[u] = "CLOSED"
    /\ run[u].pc = "idle"
    /\ ws_state' = [ws_state EXCEPT ![u] = "OPEN"]
    /\ UNCHANGED <<chanVars, ledger, nonce, saver, run, nrun, upstream, store, repos, dr, responded>>

\* consume_messages, a type that starts with "schedule_": ScheduleManager has
\* no handle_scheduled_task, the AttributeError is caught by the loop and
\* neither a handler nor save_scheduled_task runs.
consume_scheduled(u, msg) ==
    /\ run[u].pc = "idle"
    /\ nrun < MaxRuns
    /\ msg.type.plain \in ScheduleTypes
    /\ nrun' = nrun + 1
    /\ run' = [run EXCEPT ![u] = [IdleRun EXCEPT !.nr = nrun + 1, !.at = now, !.msg = msg, !.outcome = "AttributeError"]]
    /\ UNCHANGED <<chanVars, ledger, nonce, saver, ws_state, upstream, store, repos, dr, responded>>

\* restic init: a repository that exists makes it exit non-zero with "config
\* file already exists"
InitOutcomes(u, repo) == IF repo \in repos[u] THEN {"already_exists"} ELSE {"ok", "fatal"}

\* A handler that goes on to its response whatever restic init returned.
InitProceeds_always(outcome) == TRUE

\* handle_init_local_repo, lines 36-52: every non-zero exit returns
InitProceeds(outcome) == outcome = "ok"

\* handle_init_local_repo up to the await of save_command / websocket.send
handle_init_local_repo(u, msg, outcome) ==
    /\ run[u].pc = "idle"
    /\ nrun < MaxRuns
    /\ msg.type.plain = "init_local_repo"
    /\ outcome \in InitOutcomes(u, msg.repo_path.plain)
    /\ nrun' = nrun + 1
    /\ repos' = IF outcome = "ok" THEN [repos EXCEPT ![u] = @ \cup {msg.repo_path.plain}] ELSE repos
    /\ IF InitProceeds(outcome)
       THEN /\ run' = [run EXCEPT ![u] =
                   [IdleRun EXCEPT !.pc = "send", !.nr = nrun + 1, !.at = now, !.msg = msg, !.outcome = outcome,
                       !.resp = Response("response_init_local_repo", 0, "none", msg.repo_path.plain, "none")]]
            /\ IF HistoryOn(msg)
               THEN /\ ledger' = [ledger EXCEPT ![u] = SaveCommand(@, "init_local_repo", msg, msg.repo_path.plain, nonce + 1)]
                    /\ nonce' = nonce + 1
               ELSE UNCHANGED <<ledger, nonce>>
       ELSE /\ run' = [run EXCEPT ![u] = [IdleRun EXCEPT !.nr = nrun + 1, !.at = now, !.msg = msg, !.outcome = outcome]]
            /\ UNCHANGED <<ledger, nonce>>
    /\ UNCHANGED <<chanVars, saver, ws_state, upstream, store, dr, responded>>

\* handle_init_local_repo, line 82: websocket.send whatever the state of the
\* socket; on a closed socket it raises and "except Exception" logs it.
init_send(u) ==
    /\ run[u].pc = "send"
    /\ upstream' = IF ws_state[u] = "OPEN" THEN [upstream EXCEPT ![u] = Append(@, run[u].resp)] ELSE upstream
    /\ run' = [run EXCEPT ![u].pc = "idle",
                          ![u].events = Append(@, Event(run[u].resp, IF ws_state[u] = "OPEN" THEN "upstream" ELSE "lost"))]
    /\ UNCHANGED <<chanVars, ledger, nonce, saver, nrun, ws_state, store, repos, dr, responded>>

\* handle_get_local_repo_snapshots up to the emission block
handle_get_local_repo_snapshots(u, msg, outcome, snapshots) ==
    /\ run[u].pc = "idle"
    /\ nrun < MaxRuns
    /\ msg.type.plain = "get_local_repo_snapshots"
    /\ nrun' = nrun + 1
    /\ IF outcome = "ok"
       THEN /\ run' = [run EXCEPT ![u] =
                   [IdleRun EXCEPT !.pc = "emit", !.nr = nrun + 1, !.at = now, !.msg = msg, !.outcome = outcome,
                       !.resp = Response("response_local_repo_snapshots", 0, msg.repo_path.plain, snapshots, "none")]]
            /\ IF HistoryOn(msg)
               THEN /\ ledger' = [ledger EXCEPT ![u] = SaveCommand(@, "get_local_repo_snapshots", msg, snapshots, nonce + 1)]
                    /\ nonce' = nonce + 1
               ELSE UNCHANGED <<ledger, nonce>>
       ELSE /\ snapshots = "s1"
            /\ run' = [run EXCEPT ![u] = [IdleRun EXCEPT !.nr = nrun + 1, !.at = now, !.msg = msg, !.outcome = outcome]]
            /\ UNCHANGED <<ledger, nonce>>
    /\ UNCHANGED <<chanVars, saver, ws_state, upstream, store, repos, dr, responded>>

\* handle_do_*: entry, task_uuid = uuid4(), for the cloud kinds head_bucket,
\* then the "processing" message
handle_do_begin(u, msg, bucket_ok) ==
    /\ run[u].pc = "idle"
    /\ nrun < MaxRuns
    /\ msg.type.plain \in ProgressKinds
    /\ msg.type.plain \in LocalKinds => bucket_ok
    /\ nrun' = nrun + 1
    /\ IF bucket_ok
       THEN LET r == ProcessingResponse(msg, nrun + 1)
            IN /\ run' = [run EXCEPT ![u] =
                      [IdleRun EXCEPT !.pc = "tool", !.nr = nrun + 1, !.at = now, !.msg = msg, !.task_uuid = nrun + 1,
                          !.events = <<Event(r, Via(u, msg.type.plain))>>]]
               /\ Emit(u, msg.type.plain, r)
       ELSE /\ run' = [run EXCEPT ![u] = [IdleRun EXCEPT !.nr = nrun + 1, !.at = now, !.msg = msg, !.outcome = "ClientError"]]
            /\ UNCHANGED <<upstream, ledger>>
    /\ UNCHANGED <<chanVars, nonce, saver, ws_state, store, repos, dr, responded>>

\* handle_do_*: subprocess.run, the search for the summary line, save_command
handle_do_tool(u, outcome) ==
    LET msg == run[u].msg
        raises == HistoryOn(msg) /\ EncryptRaises(msg, SaveCommandFields(msg.type.plain, msg))
    IN /\ run[u].pc = "tool"
       /\ IF outcome = "ok" /\ ~raises
          THEN /\ run' = [run EXCEPT ![u].pc = "emit", ![u].outcome = "ok",
                                     ![u].resp = CompletedResponse(msg, run[u].task_uuid, "summary"),
                                     ![u].events = Append(@, Spawned)]
               /\ IF HistoryOn(msg)
                  THEN /\ ledger' = [ledger EXCEPT ![u] = SaveCommand(@, msg.type.plain, msg, "summary", nonce + 1)]
                       /\ nonce' = nonce + 1
                  ELSE UNCHANGED <<ledger, nonce>>
          ELSE /\ run' = [run EXCEPT ![u].pc = "idle",
                                     ![u].outcome = IF outcome = "ok" THEN "AttributeError" ELSE outcome,
                                     ![u].events = Append(@, Spawned)]
               /\ UNCHANGED <<ledger, nonce>>
       /\ UNCHANGED <<chanVars, saver, nrun, ws_state, upstream, store, repos, dr, responded>>

\* A line of the tool's stdout as json.loads sees it: not JSON ("text"), a
\* JSON object with its message_type, or another JSON value (a number, a
\* string, a list, null).  summary names the object.
TextLine == [kind |-> "text", message_type |-> "none", summary |-> "none"]
ValueLine == [kind |-> "value", message_type |-> "none", summary |-> "none"]
StatusLine == [kind |-> "object", message_type |-> "status", summary |-> "none"]
SummaryLine(name) == [kind |-> "object", message_type |-> "summary", summary |-> name]

\* `for line in output.splitlines()`: json.loads raises JSONDecodeError on a
\* line that is not JSON (continue); message.get is called on whatever value
\* was parsed and raises AttributeError on one that is not an object, which
\* leaves the loop for the handler's `except Exception`.
RECURSIVE ScanSummary(_)
ScanSummary(lines) ==
    IF lines = <<>> THEN [summary_message |-> "none", raised |-> "none"]
    ELSE IF Head(lines).kind = "text" THEN ScanSummary(Tail(lines))
    ELSE IF Head(lines).kind = "value" THEN [summary_message |-> "none", raised |-> "AttributeError"]
    ELSE IF Head(lines).message_type = "summary" THEN [summary_message |-> Head(lines).summary, raised |-> "none"]
    ELSE ScanSummary(Tail(lines))

\* handle_do_local_repo_backup and handle_do_local_repo_restore from
\* subprocess.run, which exits with 0 and the given stdout, to the last
\* emission block; command_history is off.
handle_do_scan(u, output) ==
    LET msg == run[u].msg
        scan == ScanSummary(output)
    IN /\ run[u].pc = "tool"
       /\ ~HistoryOn(msg)
       /\ run' = [run EXCEPT ![u] =
             IF scan.summary_message # "none"
             THEN [@ EXCEPT !.pc = "emit", !.outcome = "ok",
                            !.resp = CompletedResponse(msg, run[u].task_uuid, scan.summary_message),
                            !.events = Append(@, Spawned)]
             ELSE [@ EXCEPT !.pc = "idle",
                            !.outcome = IF scan.raised = "none" THEN "nosummary" ELSE scan.raised,
                            !.events = Append(@, Spawned)]]
       /\ UNCHANGED <<chanVars, ledger, nonce, saver, nrun, ws_state, upstream, store, repos, dr, responded>>

\* The last emission block of handle_get_local_repo_snapshots and handle_do_*
emit_response(u) ==
    /\ run[u].pc = "emit"
    /\ Emit(u, run[u].msg.type.plain, run[u].resp)
    /\ run' = [run EXCEPT ![u].pc = "idle",
                          ![u].events = Append(@, Event(run[u].resp, Via(u, run[u].msg.type.plain)))]
    /\ UNCHANGED <<chanVars, nonce, saver, nrun, ws_state, store, repos, dr, responded>>

\* ------------------------------------- controller: BackupHandlers
\* The document each handler builds from a message of agent u.
Document(u, r) ==
    [EmptyDoc EXCEPT !.systemUuid = u, !.response_timestamp = now,
                     !.repo_path = r.target, !.s3_url = r.target,
                     !.summary = r.payload, !.snapshots = r.payload,
                     !.backup_output = r.payload, !.restore_output = r.payload]

\* collection.find_one(filter on keys): a document that matches, or none
find_one(docs, keys, doc) == {d \in docs : \A k \in keys : d[k] = doc[k]}

\* A comparison that never finds the stored payload equal.
SamePayload_never(existing, field, doc) == FALSE

\* "if existing_document: if existing_document.get(field) == payload: return"
SamePayload(existing, field, doc) == \E d \in existing : d[field] = doc[field]

\* "if not repo_path or not backup_output: return": "" and None are falsy
Incomplete(r) == r.target = "none" \/ r.payload \in {"", "none"}

handle_response_init_local_repo(docs, u, r) ==
    update_one(docs, {"systemUuid"}, Document(u, r), {"systemUuid", "response_timestamp", "summary"})

handle_response_local_repo_snapshots(docs, u, r) ==
    IF SamePayload(find_one(docs, {"systemUuid", "repo_path"}, Document(u, r)), "snapshots", Document(u, r))
    THEN docs
    ELSE update_one(docs, {"systemUuid", "repo_path"}, Document(u, r),
                    {"systemUuid", "response_timestamp", "repo_path", "snapshots"})

handle_response_local_repo_backup(docs, u, r) ==
    IF Incomplete(r)
    THEN docs
    ELSE update_one(docs, {"systemUuid", "repo_path"}, Document(u, r),
                    {"systemUuid", "response_timestamp", "repo_path", "backup_output"})

handle_response_local_repo_restore(docs, u, r) ==
    IF Incomplete(r)
    THEN docs
    ELSE update_one(docs, {"systemUuid", "repo_path"}, Document(u, r),
                    {"systemUuid", "response_timestamp", "repo_path", "restore_output"})

handle_response_s3_repo_backup(docs, u, r) ==
    IF Incomplete(r)
       \/ SamePayload(find_one(docs, {"systemUuid", "s3_url"}, Document(u, r)), "backup_output", Document(u, r))
    THEN docs
    ELSE update_one(docs, {"systemUuid", "s3_url"}, Document(u, r),
                    {"response_timestamp", "s3_url", "backup_output"})

\* The existing document is looked up in the collection of the local
\* snapshots (existing) and the upsert goes to the one of the cloud snapshots.
handle_response_s3_repo_snapshots(docs, existing, u, r) ==
    IF SamePayload(find_one(existing, {"s3_url"}, Document(u, r)), "snapshots", Document(u, r))
    THEN docs
    ELSE update_one(docs, {"s3_url"}, Document(u, r), {"response_timestamp", "s3_url", "snapshots"})

\* BackupHandlers.dispatch_table: the collection a response type is stored in
\* ("none": the type has no handler and the message is dropped)
CollectionOf(type) ==
    CASE type = "response_init_local_repo" -> "initialized_local_repos"
      [] type = "response_local_repo_snapshots" -> "local_repo_snapshots"
      [] type = "response_local_repo_backup" -> "local_repo_backups"
      [] type = "response_local_repo_restore" -> "local_repo_restores"
      [] type = "response_s3_repo_backup" -> "s3_repo_backups"
      [] OTHER -> "none"

Handled(docs, u, r) ==
    CASE r.type = "response_init_local_repo" -> handle_response_init_local_repo(docs, u, r)
      [] r.type = "response_local_repo_snapshots" -> handle_response_local_repo_snapshots(docs, u, r)
      [] r.type = "response_local_repo_backup" -> handle_response_local_repo_backup(docs, u, r)
      [] r.type = "response_local_repo_restore" -> handle_response_local_repo_restore(docs, u, r)
      [] r.type = "response_s3_repo_backup" -> handle_response_s3_repo_backup(docs, u, r)

\* receive_data: the next message of agent u's channel goes through the
\* dispatch table.  Every document key holds the systemUuid of the channel
\* and the loop of a channel handles one message at a time, so find_one and
\* update_one of one handler are not separated by a write to the same key.
handle_message(u) ==
    /\ upstream[u] # <<>>
    /\ upstream' = [upstream EXCEPT ![u] = Tail(@)]
    /\ LET r == Head(upstream[u])
           c == CollectionOf(r.type)
       IN store' = IF c = "none" THEN store ELSE [store EXCEPT ![c] = Handled(@, u, r)]
    /\ UNCHANGED <<chanVars, ledger, nonce, saver, run, nrun, ws_state, repos, dr, responded>>

\* What ends, or does not end, one turn of the receive loop.
Faults == {"none", "invalid_json", "store_error", "runtime_error"}

\* The handlers whose store calls are not inside a try block: an exception
\* of find_one or update_one leaves the handler, handle_message and
\* receive_data.
Unguarded == {"response_local_repo_snapshots"}

\* receive_data, one turn of `while True` on the channel c:
\*   none           the next message of the agent is parsed and handled;
\*   store_error    the same while the store refuses every call: a handler
\*                  with a try block logs it, one without lets it out;
\*   invalid_json   the text received is not JSON and json.loads raises;
\*   runtime_error  receive_text raises RuntimeError, which is logged.
\* Only WebSocketDisconnect reaches ConnectionManager.disconnect (disconnect_pop);
\* after any other exception the endpoint coroutine is over and the server
\* closes the socket.
receive_data(c, fault) ==
    LET u == conn[c].uuid
        r == Head(upstream[u])
        col == CollectionOf(r.type)
        over == [conn EXCEPT ![c].pc = "ended", ![c].open = FALSE]
    IN /\ conn[c].pc = "receiving"
       /\ conn[c].open
       /\ \/ /\ fault = "none"
             /\ upstream[u] # <<>>
             /\ upstream' = [upstream EXCEPT ![u] = Tail(@)]
             /\ store' = IF col = "none" THEN store ELSE [store EXCEPT ![col] = Handled(@, u, r)]
             /\ responded' = IF r.type = "response_local_repo_snapshots"
                             THEN {e \in responded : ~(e.systemUuid = u /\ e.repo_path = r.target)}
                                    \cup {[systemUuid |-> u, repo_path |-> r.target, at |-> now]}
                             ELSE responded
             /\ UNCHANGED conn
          \/ /\ fault = "store_error"
             /\ upstream[u] # <<>>
             /\ col # "none"
             /\ upstream' = [upstream EXCEPT ![u] = Tail(@)]
             /\ conn' = IF r.type \in Unguarded THEN over ELSE conn
             /\ UNCHANGED <<store, responded>>
          \/ /\ fault \in {"invalid_json", "runtime_error"}
             /\ conn' = over
             /\ UNCHANGED <<upstream, store, responded>>
       /\ UNCHANGED <<now, srvVars, nconn, lastOpen, inbox, cons, agent, nmut, lastMut, invoked, handled,
                      ledger, nonce, saver, run, nrun, ws_state, repos, dr>>

\* s3_restic_helper(..., "snapshots"): the controller lists the snapshots of a
\* bucket itself and hands the response_s3_repo_snapshots message, with an
\* empty system_uuid, to the handler.
get_s3_repo_snapshots(bucket, snapshots) ==
    /\ store' = [store EXCEPT !["s3_repo_snapshots"] =
                    handle_response_s3_repo_snapshots(@, store["local_repo_snapshots"], "",
                        Response("response_s3_repo_snapshots", 0, bucket, snapshots, "none"))]
    /\ UNCHANGED <<chanVars, ledger, nonce, saver, run, nrun, ws_state, upstream, repos, dr, responded>>

\* cleanup_old_data: every minute, delete the snapshot documents older than
\* one minute
cleanup_old_data ==
    /\ \E d \in store["local_repo_snapshots"] : d.response_timestamp < now - 1
    /\ store' = [store EXCEPT !["local_repo_snapshots"] = {d \in @ : ~(d.response_timestamp < now - 1)}]
    /\ UNCHANGED <<chanVars, ledger, nonce, saver, run, nrun, ws_state, upstream, repos, dr, responded>>

\* ------------------------------------------- controller: DRMonitor (dr_mon.py)
\* parse_duration: int() of what precedes "H" with "PT" removed, then int()
\* of what precedes "M" in the rest; without an "H" the minutes part still
\* holds "PT" and int() raises ValueError.  Seconds are never read.
ParseRaises(d) == d.h = Null /\ d.m # Null
parse_duration(d) == 60 * (IF d.h = Null THEN 0 ELSE d.h) + (IF d.m = Null THEN 0 ELSE d.m)

\* check_dr_clients, lines 55-99: the conditions under which the loop body
\* reaches trigger_restore for a policy entry
Triggers(entry, doc, t) ==
    /\ entry.enabled
    /\ doc # NoDoc
    /\ doc.connected_at # Null /\ doc.last_disconnected # Null
    /\ entry.DR_monitoring_threshold.given
    /\ ~ParseRaises(entry.DR_monitoring_threshold)
    /\ t - doc.last_disconnected > parse_duration(entry.DR_monitoring_threshold)

\* trigger_restore: the call and the restore_config it reads ("none": the
\* entry has no restore_config and the call returns after logging so)
Restore(entry) == [agent_uuid |-> entry.agent_uuid, restore_config |-> entry.restore_config]

\* One iteration of the loop over the agents of the policy
check_dr_client ==
    /\ dr.pos <= Len(dr.policy)
    /\ LET entry == dr.policy[dr.pos]
       IN dr' = [dr EXCEPT !.pos = @ + 1,
                           !.log = IF Triggers(entry, status_collection[entry.agent_uuid], now)
                                   THEN Append(@, Restore(entry))
                                   ELSE @]
    /\ UNCHANGED <<chanVars, ledger, nonce, saver, run, nrun, ws_state, upstream, store, repos, responded>>

\* monitor_dr_status: the pass is over, sleep, start the next pass
monitor_dr_status ==
    /\ dr.policy # <<>>
    /\ dr.pos > Len(dr.policy)
    /\ dr' = [dr EXCEPT !.pos = 1, !.log = <<>>, !.pass = IF @ < MaxPasses THEN @ + 1 ELSE @]
    /\ UNCHANGED <<chanVars, ledger, nonce, saver, run, nrun, ws_state, upstream, store, repos, responded>>

\* ------------------------------------------- parse_duration on the text
\* A threshold as the text the policy file holds: a sequence of characters.
DigitChars == <<"0", "1", "2", "3", "4", "5", "6", "7", "8", "9">>
IsDigit(c) == \E i \in 1..10 : DigitChars[i] = c
DigitVal(c) == (CHOOSE i \in 1..10 : DigitChars[i] = c) - 1

\* str(n) for 0 <= n < 100
Str(n) == IF n < 10 THEN <<DigitChars[n + 1]>> ELSE <<DigitChars[(n \div 10) + 1], DigitChars[(n % 10) + 1]>>

\* c in s
Contains(s, c) == \E i \in 1..Len(s) : s[i] = c

\* s.split(c): the parts of s between the occurrences of c
RECURSIVE Split(_, _)
Split(s, c) ==
    IF ~Contains(s, c)
    THEN <<s>>
    ELSE LET i == CHOOSE j \in 1..Len(s) : s[j] = c /\ \A k \in 1..(j - 1) : s[k] # c
         IN <<SubSeq(s, 1, i - 1)>> \o Split(SubSeq(s, i + 1, Len(s)), c)

\* s.replace("PT", "")
RECURSIVE RemovePT(_)
RemovePT(s) ==
    IF Len(s) < 2 THEN s
    ELSE IF s[1] = "P" /\ s[2] = "T" THEN RemovePT(SubSeq(s, 3, Len(s)))
    ELSE <<s[1]>> \o RemovePT(Tail(s))

\* s.split(): the parts of s between runs of blanks
Words(s) == SelectSeq(Split(s, " "), LAMBDA w : w # <<>>)

\* s.strip()
RECURSIVE Strip(_)
Strip(s) ==
    IF s = <<>> THEN s
    ELSE IF Head(s) = " " THEN Strip(Tail(s))
    ELSE IF s[Len(s)] = " " THEN Strip(SubSeq(s, 1, Len(s) - 1))
    ELSE s

\* int(s): blanks around the digits are accepted; raises ValueError otherwise
IntRaises(s) == Strip(s) = <<>> \/ \E i \in 1..Len(Strip(s)) : ~IsDigit(Strip(s)[i])
RECURSIVE IntOfDigits(_)
IntOfDigits(s) == IF s = <<>> THEN 0 ELSE 10 * IntOfDigits(SubSeq(s, 1, Len(s) - 1)) + DigitVal(s[Len(s)])
IntOf(s) == IntOfDigits(Strip(s))

\* What a call of parse_duration ends in: the timedelta in seconds, or the
\* exception that leaves it.
Parsed(seconds) == [raised |-> "none", seconds |-> seconds]
ParseError(exc) == [raised |-> exc, seconds |-> 0]
Timedelta(hours, minutes, seconds) == 3600 * hours + 60 * minutes + seconds

\* DRMonitor.parse_duration of dr_mon.py
parse_duration_text(s) ==
    LET hoursPart == RemovePT(Split(s, "H")[1])
        rest == IF Contains(s, "H") THEN Split(s, "H")[2] ELSE s
        minutesPart == Split(rest, "M")[1]
    IN IF Contains(s, "H") /\ IntRaises(hoursPart) THEN ParseError("ValueError")
       ELSE IF Contains(rest, "M") /\ IntRaises(minutesPart) THEN ParseError("ValueError")
       ELSE Parsed(Timedelta(IF Contains(s, "H") THEN IntOf(hoursPart) ELSE 0,
                             IF Contains(rest, "M") THEN IntOf(minutesPart) ELSE 0,
                             0))

\* DRMonitor.parse_duration of disaster_recovery.py: a ValueError is logged
\* and timedelta() returned; "".split()[-1] raises IndexError.
parse_duration_flexible(s) ==
    IF Len(s) >= 2 /\ s[1] = "P" /\ s[2] = "T"
    THEN LET first == Split(s, "H")[1]
             hours_part == SubSeq(first, 3, Len(first))
             beforeM == Split(Split(s, "M")[1], "H")
             minutes_part == beforeM[Len(beforeM)]
         IN IF Contains(s, "H") /\ hours_part # <<>> /\ IntRaises(hours_part) THEN Parsed(0)
            ELSE IF Contains(s, "M") /\ minutes_part # <<>> /\ IntRaises(minutes_part) THEN Parsed(0)
            ELSE Parsed(Timedelta(IF Contains(s, "H") /\ hours_part # <<>> THEN IntOf(hours_part) ELSE 0,
                                  IF Contains(s, "M") /\ minutes_part # <<>> THEN IntOf(minutes_part) ELSE 0,
                                  0))
    ELSE LET hoursPart == Split(s, "h")[1]
             words == Words(Split(s, "m")[1])
         IN IF Contains(s, "h") /\ IntRaises(hoursPart) THEN Parsed(0)
            ELSE IF Contains(s, "m") /\ words = <<>> THEN ParseError("IndexError")
            ELSE IF Contains(s, "m") /\ IntRaises(words[Len(words)]) THEN Parsed(0)
            ELSE Parsed(Timedelta(IF Contains(s, "h") THEN IntOf(hoursPart) ELSE 0,
                                  IF Contains(s, "m") THEN IntOf(words[Len(words)]) ELSE 0,
                                  0))

\* "PT<H>H<M>M<S>S", a field left out when its number is Null
IsoDuration(h, m, s) ==
    <<"P", "T">> \o (IF h = Null THEN <<>> ELSE Str(h) \o <<"H">>)
                \o (IF m = Null THEN <<>> ELSE Str(m) \o <<"M">>)
                \o (IF s = Null THEN <<>> ELSE Str(s) \o <<"S">>)

\* "<N>h<N>m", with or without a blank between the parts
FlexDuration(h, m, blank) == Str(h) \o <<"h">> \o (IF blank THEN <<" ">> ELSE <<>>) \o Str(m) \o <<"m">>

\* The two classes DRMonitor
Monitors == {"dr_mon", "disaster_recovery"}

\* The monitor reads the threshold of the policy entry at hand and parses it.
parse_threshold(which) ==
    /\ dr.pos <= Len(dr.policy)
    /\ dr' = [dr EXCEPT !.pos = @ + 1,
                        !.log = Append(@, IF which = "dr_mon"
                                          THEN parse_duration_text(dr.policy[dr.pos].DR_monitoring_threshold)
                                          ELSE parse_duration_flexible(dr.policy[dr.pos].DR_monitoring_threshold))]
    /\ UNCHANGED <<chanVars, ledger, nonce, saver, run, nrun, ws_state, upstream, store, repos, responded>>

\* ------------------------------------------------------------ specification
\* Steps of the controller's coroutine for channel c.
ServerStep(c) ==
    \/ connect_accept(c)
    \/ connect_status(c)
    \/ create_queue(c)
    \/ disconnect_pop(c)
    \/ disconnect_status(c)
    \/ disconnect_queue(c)
    \/ \E ok \in BOOLEAN : queue_delete(c, ok)

\* One agent end to end: its control loop, its consumers, the broker and the
\* controller, under jobs with and without a handler.
ChannelAgents == {"A"}
ChannelSched == {NoSched, [scheduler |-> "interval", repeats |-> "once", timelapse |-> "none"]}

Next ==
    \/ \E ok \in BOOLEAN : connect_to_rabbit(ok)
    \/ \E c \in ConnIds : ServerStep(c)
    \/ \E c \in ConnIds : Drop(c)
    \/ \E u \in ChannelAgents, sch \in ChannelSched : Mutation("get_local_repo_snapshots", u, sch)
    \/ \E u \in ChannelAgents : obtain_jwt(u)
    \/ \E u \in ChannelAgents : AgentOpen(u)
    \/ \E u \in ChannelAgents, ok \in BOOLEAN, rq \in BOOLEAN : AgentStartConsumer(u, ok, rq)
    \/ \E u \in ChannelAgents : AgentPoll(u)
    \/ \E k \in ConnIds : consume_declare(k)
    \/ \E k \in ConnIds : Deliver(k)
    \/ \E k \in ConnIds : handler_begin(k)
    \/ \E k \in ConnIds : consume_skip(k)
    \/ \E k \in ConnIds : handler_end(k)

Spec == Init /\ [][Next]_vars

\* The dispatcher: every mutation and every scheduling input, for a target
\* whose channel opens and closes and for a target that never connects.
NextDispatch ==
    \/ \E ok \in BOOLEAN : connect_to_rabbit(ok)
    \/ \E u \in ChannelAgents : ForeignOpen(u, create_access_token(u, now), "org1")
    \/ \E c \in ConnIds : ServerStep(c)
    \/ \E c \in ConnIds : Drop(c)
    \/ \E k \in Kinds \ {"get_local_repo_snapshots"}, u \in Agents : Mutation(k, u, NoSched)
    \/ \E u \in Agents, sch \in SchedInputs : Mutation("get_local_repo_snapshots", u, sch)

SpecDispatch == Init /\ [][NextDispatch]_vars

\* The fleet: channels of both agents open and close while jobs are
\* dispatched to either.
FleetKinds == {"init_local_repo", "do_local_repo_backup"}

NextFleet ==
    \/ \E ok \in BOOLEAN : connect_to_rabbit(ok)
    \/ \E u \in Agents : ForeignOpen(u, create_access_token(u, now), "org1")
    \/ \E c \in ConnIds : ServerStep(c)
    \/ \E c \in ConnIds : Drop(c)
    \/ \E k \in FleetKinds, u \in Agents : Mutation(k, u, NoSched)

SpecFleet == Init /\ [][NextFleet]_vars

\* Channel opens under every kind of token, with and without org, while the
\* clock runs past the tokens' expiry.
NextAuth ==
    \/ Tick
    \/ \E ok \in BOOLEAN : connect_to_rabbit(ok)
    \/ \E u \in ChannelAgents : obtain_jwt(u)
    \/ \E u \in ChannelAgents : AgentOpen(u)
    \/ \E u \in ChannelAgents, org \in Orgs : \E token \in ForeignTokens(u, now) : ForeignOpen(u, token, org)
    \/ \E c \in ConnIds : ServerStep(c)
    \/ \E c \in ConnIds : Drop(c)

SpecAuth == Init /\ [][NextAuth]_vars

\* The ledger module under calls from two coroutines of one agent (an inbox
\* handler and a scheduler firing, or the handlers of two consumers).
NextLedger ==
    \/ \E i \in SaverIds, params \in SavedMessages : save_command_check(i, params, "summary")
    \/ \E i \in SaverIds : save_command_insert(i, "summary")
    \/ \E params \in {ScheduleMessage("r1", Plain("true")),
                      S3Message("do_s3_repo_backup", "b1", Plain("tok"), Plain("true"))} :
          save_scheduled_task(params)

SpecLedger == Init /\ [][NextLedger]_vars

\* Agent A handles any of its jobs while its channel drops and re-opens,
\* agent B one backup; the controller takes the responses off the channels.
NextJobs ==
    \/ ws_close("A")
    \/ ws_reopen("A")
    \/ \E u \in Agents : \E msg \in JobMessages(u) : consume_scheduled(u, msg)
    \/ \E u \in Agents : \E msg \in JobMessages(u) : \E outcome \in {"ok", "fatal", "already_exists"} :
          handle_init_local_repo(u, msg, outcome)
    \/ \E u \in Agents : init_send(u)
    \/ \E u \in Agents : \E msg \in JobMessages(u) : \E outcome \in ToolOutcomes, snapshots \in SnapshotLists :
          handle_get_local_repo_snapshots(u, msg, outcome, snapshots)
    \/ \E u \in Agents : \E msg \in JobMessages(u) : \E bucket_ok \in BOOLEAN : handle_do_begin(u, msg, bucket_ok)
    \/ \E u \in Agents, outcome \in ToolOutcomes : handle_do_tool(u, outcome)
    \/ \E u \in Agents : emit_response(u)
    \/ \E u \in Agents : handle_message(u)

SpecJobs == Init /\ [][NextJobs]_vars

\* The same, on an event loop that runs every handler it has started to its
\* end.
SpecJobsFair ==
    /\ SpecJobs
    /\ \A u \in Agents :
          WF_vars(init_send(u) \/ (\E outcome \in ToolOutcomes : handle_do_tool(u, outcome)) \/ emit_response(u))

\* Both agents handle jobs on open channels; the controller stores the
\* responses while time passes and the sweep deletes old snapshot documents.
NextStore ==
    \/ Tick
    \/ \E u \in Agents : \E msg \in StoreMessages(u) : \E outcome \in {"ok", "fatal", "already_exists"} :
          handle_init_local_repo(u, msg, outcome)
    \/ \E u \in Agents : init_send(u)
    \/ \E u \in Agents : \E msg \in StoreMessages(u) : \E outcome \in ToolOutcomes, snapshots \in SnapshotLists :
          handle_get_local_repo_snapshots(u, msg, outcome, snapshots)
    \/ \E u \in Agents : \E msg \in StoreMessages(u) : \E bucket_ok \in BOOLEAN : handle_do_begin(u, msg, bucket_ok)
    \/ \E u \in Agents, outcome \in ToolOutcomes : handle_do_tool(u, outcome)
    \/ \E u \in Agents : emit_response(u)
    \/ \E u \in Agents : handle_message(u)
    \/ cleanup_old_data

SpecStore == Init /\ [][NextStore]_vars

\* ---- the result store with every kind of document: one agent's jobs, the
\* controller's own listing of a bucket, and the retention sweep.
ResultMessages ==
    {LocalMessage("init_local_repo", "r1", NoneValue),
     LocalMessage("get_local_repo_snapshots", "r1", NoneValue),
     LocalMessage("do_local_repo_backup", "r1", NoneValue),
     LocalMessage("do_local_repo_restore", "r1", NoneValue),
     S3Message("do_s3_repo_backup", "b1", Plain("tok"), NoneValue)}

NextResults ==
    \/ Tick
    \/ \E msg \in ResultMessages : handle_init_local_repo("A", msg, "ok")
    \/ init_send("A")
    \/ \E msg \in ResultMessages : handle_get_local_repo_snapshots("A", msg, "ok", "s1")
    \/ \E msg \in ResultMessages : handle_do_begin("A", msg, TRUE)
    \/ handle_do_tool("A", "ok")
    \/ emit_response("A")
    \/ handle_message("A")
    \/ get_s3_repo_snapshots("b1", "s1")
    \/ cleanup_old_data

SpecResults == Init /\ [][NextResults]_vars

\* ---- agent A's channel with its receive loop: responses of two handlers
\* come up the channel, the store fails or not, the text is JSON or not, the
\* channel drops and is opened again, and mutations target the agent.
ReceiveMessages ==
    {LocalMessage("init_local_repo", "r1", NoneValue),
     LocalMessage("get_local_repo_snapshots", "r1", NoneValue)}

NextReceive ==
    \/ connect_to_rabbit(TRUE)
    \/ ForeignOpen("A", create_access_token("A", now), "org1")
    \/ \E c \in ConnIds : ServerStep(c)
    \/ \E c \in ConnIds : Drop(c)
    \/ \E msg \in ReceiveMessages : handle_init_local_repo("A", msg, "ok")
    \/ init_send("A")
    \/ \E msg \in ReceiveMessages : handle_get_local_repo_snapshots("A", msg, "ok", "s1")
    \/ emit_response("A")
    \/ \E c \in ConnIds, fault \in Faults : receive_data(c, fault)
    \/ Mutation("init_local_repo", "A", NoSched)

SpecReceive == Init /\ [][NextReceive]_vars

\* ---- channels requested for either agent under a token issued to either
\* agent (POST /token issues one for any system_uuid given with the password).
NextSubject ==
    \/ connect_to_rabbit(TRUE)
    \/ \E u \in Agents, sub \in Agents : ForeignOpen(u, create_access_token(sub, now), "org1")
    \/ \E c \in ConnIds : ServerStep(c)
    \/ \E c \in ConnIds : Drop(c)

SpecSubject == Init /\ [][NextSubject]_vars

\* ---- agent A lists the snapshots of one repository again and again over
\* an open channel while time passes and the sweep runs.
NextRetention ==
    \/ Tick
    \/ connect_to_rabbit(TRUE)
    \/ ForeignOpen("A", create_access_token("A", now), "org1")
    \/ \E c \in ConnIds : connect_accept(c) \/ connect_status(c) \/ create_queue(c)
    \/ \E snapshots \in SnapshotLists :
          handle_get_local_repo_snapshots("A", LocalMessage("get_local_repo_snapshots", "r1", NoneValue), "ok", snapshots)
    \/ emit_response("A")
    \/ \E c \in ConnIds : receive_data(c, "none")
    \/ cleanup_old_data

SpecRetention == Init /\ [][NextRetention]_vars

\* ---- agent A consumes its jobs over an open channel and is told to shut
\* down at any moment.
NextShutdown ==
    \/ connect_to_rabbit(TRUE)
    \/ \E c \in ConnIds : connect_accept(c) \/ connect_status(c) \/ create_queue(c)
    \/ Mutation("do_local_repo_backup", "A", NoSched)
    \/ obtain_jwt("A")
    \/ AgentOpen("A")
    \/ AgentStartConsumer("A", TRUE, FALSE)
    \/ \E k \in ConnIds : consume_declare(k)
    \/ \E k \in ConnIds : Deliver(k)
    \/ \E k \in ConnIds : handler_begin(k)
    \/ \E k \in ConnIds : handler_end(k)
    \/ handle_shutdown("A")
    \/ \E rq \in BOOLEAN : agent_exit("A", rq)

SpecShutdown == Init /\ [][NextShutdown]_vars

\* The DR monitor passes over its policy while time goes by.
NextDR ==
    \/ Tick
    \/ check_dr_client
    \/ monitor_dr_status

SpecDR == InitDR /\ [][NextDR]_vars

\* Disaster recovery end to end: the channel of agent A opens and closes,
\* the connection manager writes its client_status record, time goes by and
\* the DR monitor, started on a policy document, runs pass after pass.
\* The policy entry of agent A: enabled, threshold PT0H15M, a restore_config.
RecoveryEntry == PolicyEntry("org1", "A", TRUE, Threshold(TRUE, 0, 15, Null), "cfgA")

InitRecovery ==
    /\ InitChannel
    /\ status_collection = [u \in Agents |-> NoDoc]
    /\ InitJobs
    /\ dr \in {[NoMonitor EXCEPT !.policy = p] : p \in {q \in Policies : q[1] = RecoveryEntry}}

NextRecovery ==
    \/ Tick
    \/ \E ok \in BOOLEAN : connect_to_rabbit(ok)
    \/ \E u \in ChannelAgents : ForeignOpen(u, create_access_token(u, now), "org1")
    \/ \E c \in ConnIds : ServerStep(c)
    \/ \E c \in ConnIds : Drop(c)
    \/ check_dr_client
    \/ monitor_dr_status

\* The clock runs, the monitoring loop never stops ("while True"), and the
\* controller's coroutines are scheduled.
SpecRecovery ==
    /\ InitRecovery /\ [][NextRecovery]_vars
    /\ WF_vars(Tick) /\ WF_vars(check_dr_client) /\ WF_vars(monitor_dr_status)
    /\ \A c \in ConnIds : WF_vars(ServerStep(c))

\* ---- one agent's consumer on a channel that stays open: jobs of the
\* dispatcher and messages of unknown type arrive in its inbox.  The event
\* loop runs the consumer and the broker delivers.
NextConsume ==
    \/ connect_to_rabbit(TRUE)
    \/ \E c \in ConnIds : connect_accept(c) \/ connect_status(c) \/ create_queue(c)
    \/ \E k \in Kinds, u \in ChannelAgents : Mutation(k, u, NoSched)
    \/ \E u \in ChannelAgents, type \in UnknownTypes : ForeignPublish(u, type)
    \/ \E u \in ChannelAgents : obtain_jwt(u)
    \/ \E u \in ChannelAgents : AgentOpen(u)
    \/ \E u \in ChannelAgents : AgentStartConsumer(u, TRUE, FALSE)
    \/ \E k \in ConnIds : consume_declare(k)
    \/ \E k \in ConnIds : Deliver(k)
    \/ \E k \in ConnIds : handler_begin(k)
    \/ \E k \in ConnIds : consume_skip(k)
    \/ \E k \in ConnIds : handler_end(k)

SpecConsume ==
    /\ Init /\ [][NextConsume]_vars
    /\ \A u \in ChannelAgents : WF_vars(AgentStartConsumer(u, TRUE, FALSE))
    /\ \A k \in ConnIds :
          /\ WF_vars(consume_declare(k)) /\ WF_vars(Deliver(k))
          /\ WF_vars(handler_begin(k)) /\ WF_vars(consume_skip(k)) /\ WF_vars(handler_end(k))

\* ---- the search for the summary line: agent A runs local backups and
\* restores whose tool prints up to MaxLines lines.
OutputLines == {TextLine, ValueLine, StatusLine, SummaryLine("summary1"), SummaryLine("summary2")}
Outputs == UNION {[1..n -> OutputLines] : n \in 0..MaxLines}

SummaryMessages ==
    {LocalMessage("do_local_repo_backup", "r1", NoneValue),
     LocalMessage("do_local_repo_restore", "r1", NoneValue)}

NextSummary ==
    \/ ws_close("A")
    \/ ws_reopen("A")
    \/ \E msg \in SummaryMessages : handle_do_begin("A", msg, TRUE)
    \/ \E output \in Outputs : handle_do_scan("A", output)
    \/ emit_response("A")

SpecSummary == Init /\ [][NextSummary]_vars

\* ---- parse_duration alone: a policy with one entry whose threshold is a
\* text of one of the two documented forms.
FieldHours == {Null, 0, 1, 2, 12}
FieldMinutes == {Null, 0, 1, 30, 45}
FieldSeconds == {Null, 0, 30}
FlexHours == {1, 2}
FlexMinutes == {5, 30}

DurationTexts ==
    {IsoDuration(h, m, s) : h \in FieldHours, m \in FieldMinutes, s \in FieldSeconds}
    \cup {FlexDuration(h, m, blank) : h \in FlexHours, m \in FlexMinutes, blank \in BOOLEAN}

InitParse ==
    /\ InitChannel
    /\ status_collection = [u \in Agents |-> NoDoc]
    /\ InitJobs
    /\ dr \in {[NoMonitor EXCEPT !.policy = <<PolicyEntry("org1", "A", TRUE, text, "cfgA")>>] :
                  text \in DurationTexts}

NextParse == \E which \in Monitors : parse_threshold(which)

SpecParse == InitParse /\ [][NextParse]_vars

\* ---- the agent's supervisor alone: token requests and connects succeed or
\* fail, the channel stays open or closes, the shutdown signal may arrive.
AgentStep(u) ==
    \/ \E ok \in BOOLEAN : obtain_jwt_attempt(u, ok)
    \/ \E ok \in BOOLEAN : agent_connect(u, ok)
    \/ \E ok \in BOOLEAN : agent_connect_rabbit(u, ok)
    \/ \E open \in BOOLEAN : agent_main_loop(u, open)
    \/ interruptible_sleep(u)
    \/ asyncio_sleep(u)

NextAgent ==
    \/ \E u \in ChannelAgents : AgentStep(u)
    \/ \E u \in ChannelAgents : handle_shutdown(u)

\* The event loop runs the agent's coroutine whenever it can take a step.
SpecAgent ==
    /\ Init /\ [][NextAgent]_vars
    /\ \A u \in ChannelAgents : WF_vars(AgentStep(u))

\* ==================================================================== claims
ErrorStrings == {NotConnected, QueueNotFound, InvalidRepeats, InvalidScheduler}

\* Ids of the messages a sequence holds.
Ids(msgs) == {msgs[i].id : i \in 1..Len(msgs)}

\* C1: a dispatch mutation whose target is not connected returns "Error:
\* Client not connected"; one whose target is connected but has no inbox
\* returns an error string; in both cases the call leaves every inbox as it was.
C1_UnreachableTargetReturnsError ==
    [][nmut' = nmut + 1 =>
        /\ active_connections[lastMut'.target] = NoConn =>
              (lastMut'.result = NotConnected /\ inbox' = inbox)
        /\ (active_connections[lastMut'.target] # NoConn /\ queues[lastMut'.target] = NoQueue) =>
              (lastMut'.result \in ErrorStrings /\ inbox' = inbox)]_vars

\* C2: a mutation call changes no inbox other than its target's, and its
\* target's inbox at most by the one message appended at its end.
C2_CrossAgentIsolation ==
    [][nmut' = nmut + 1 =>
        /\ \A v \in Agents \ {lastMut'.target} : inbox'[v] = inbox[v]
        /\ \/ inbox'[lastMut'.target] = inbox[lastMut'.target]
           \/ /\ lastMut'.id = nmut'
              /\ inbox'[lastMut'.target] =
                    [inbox[lastMut'.target] EXCEPT
                        !.msgs = Append(@, [id |-> lastMut'.id, type |-> lastMut'.type])]]_vars

\* C2 witness: a job was just published to its target's inbox while the
\* other agent's inbox holds a job of its own.
C2_Witness ==
    /\ lastMut.result \in Acks
    /\ lastMut.id \in Ids(inbox[lastMut.target].msgs)
    /\ \E v \in Agents \ {lastMut.target} :
          /\ inbox[v].msgs # <<>>
          /\ lastMut.id \notin Ids(inbox[v].msgs)

\* C3: on each agent the handlers are invoked in the order in which the
\* jobs were acknowledged by the mutations (ids grow in that order).
C3_FifoPerAgent ==
    \A u \in Agents : \A i, j \in 1..Len(invoked[u]) : i < j => invoked[u][i] < invoked[u][j]

\* C4: on one agent at most one inbox-delivered job handler is in progress.
C4_OneHandlerInProgress ==
    \A u \in Agents : Cardinality({k \in ConnIds : cons[k].uuid = u /\ cons[k].cur # NoMsg}) <= 1

\* C5: a channel-open request whose token is malformed, wrongly signed or
\* older than its exp claim is closed with 4001 and changes nothing in
\* active_connections, the liveness records, the queue map or the inboxes.
TokenRejectable(token, t) == ~token.wellformed \/ ~token.signed \/ t > token.exp

C5_InvalidTokenRejected ==
    [][(lastOpen' # lastOpen /\ TokenRejectable(lastOpen'.token, now)) =>
        /\ lastOpen'.code = CLOSE_UNAUTHORIZED
        /\ UNCHANGED <<active_connections, status_collection, queues, inbox, conn, nconn>>]_vars

\* C5 witness: an expired, well-signed token was refused with 4001 for an
\* agent whose earlier channel is still registered.
C5_Witness ==
    /\ lastOpen.code = CLOSE_UNAUTHORIZED
    /\ lastOpen.token.wellformed /\ lastOpen.token.signed
    /\ now > lastOpen.token.exp
    /\ rabbit_connected
    /\ active_connections[lastOpen.uuid] # NoConn

\* C6: with the broker reachable, a channel-open request without an org
\* parameter is closed with 4001.
C6_OrgRequired ==
    (rabbit_connected /\ lastOpen.uuid # "none" /\ lastOpen.org = NoOrg) =>
        lastOpen.code = CLOSE_UNAUTHORIZED

\* C7: while rabbit_connected is false no agent is in active_connections, no
\* liveness status is written and no inbox exists, and a request with a
\* token that is (still) valid was closed with 4000.
TokenGood(token, t) == token.wellformed /\ token.signed /\ token.exp > t

C7_BrokerDownRejects ==
    ~rabbit_connected =>
        /\ \A u \in Agents : /\ active_connections[u] = NoConn
                             /\ status_collection[u] = NoDoc
                             /\ queues[u] = NoQueue
                             /\ ~inbox[u].exists
        /\ (lastOpen.uuid # "none" /\ TokenGood(lastOpen.token, now)) =>
              lastOpen.code = CLOSE_BROKER_DOWN

\* C7 witness: the controller started without its broker and has refused a
\* request that carried a valid token.
C7_Witness ==
    /\ started /\ ~rabbit_connected
    /\ lastOpen.code = CLOSE_BROKER_DOWN
    /\ TokenGood(lastOpen.token, now)

\* C8: the liveness record of a connected agent carries connected_at, not
\* earlier than last_disconnected_at; that of a disconnected agent carries a
\* last_disconnected_at later than connected_at.
C8_LivenessRecordAgrees ==
    \A u \in Agents :
        /\ status_collection[u].status = "connected" =>
              /\ status_collection[u].connected_at # Null
              /\ status_collection[u].connected_at >= status_collection[u].last_disconnected_at
        /\ status_collection[u].status = "disconnected" =>
              /\ status_collection[u].last_disconnected_at # Null
              /\ status_collection[u].last_disconnected_at > status_collection[u].connected_at

\* C9: once disconnect has finished for a channel, the record of its agent
\* written by it is disconnected and carries the close time.
C9_CloseRecordsTime ==
    \A u \in Agents :
        status_collection[u].status = "disconnected" =>
            status_collection[u].last_disconnected_at \in 0..MaxTime

\* C10: the job the last mutation acknowledged, if its type has a handler,
\* is still on its way to a handler (in the inbox or held by a consumer) or
\* has been given to one.
InFlight ==
    UNION {Ids(inbox[u].msgs) : u \in Agents}
      \cup UNION {Ids(cons[k].buf) : k \in ConnIds}
      \cup {cons[k].cur.id : k \in ConnIds}

C10_NoJobLost ==
    (lastMut.result \in Acks /\ lastMut.type \in DispatchTable) =>
        lastMut.id \in InFlight \cup UNION {{invoked[u][i] : i \in 1..Len(invoked[u])} : u \in Agents}

\* The params a stored row was saved for: every value decrypted.
ReceivedOf(p) == [i \in 1..Len(p) |-> <<p[i][1], decrypt_field(p[i][2])>>]

StoredInPlaintext(p) ==
    \E i \in 1..Len(p) :
        /\ p[i][1] \in CredentialFields
        /\ p[i][2].iv = 0
        /\ ~(p[i][1] = "aws_session_token" /\ p[i][2].plain = "")

\* C12 (credential confidentiality): in every row of every operation-kind
\* table and of schedule_ledger, password, aws_access_key_id,
\* aws_secret_access_key and a non-empty aws_session_token are ciphertext.
C12_CredentialsEncrypted ==
    \A u \in Agents, t \in Kinds \cup {"schedule_ledger"} :
        \A i \in 1..Len(ledger[u][t]) : ~StoredInPlaintext(ledger[u][t][i].params)

\* A cloud backup row with an encrypted session token and a schedule_ledger
\* row are stored.
C12_Witness ==
    /\ \E i \in 1..Len(ledger[LedgerAgent]["do_s3_repo_backup"]) :
          \E k \in 1..Len(ledger[LedgerAgent]["do_s3_repo_backup"][i].params) :
              LET item == ledger[LedgerAgent]["do_s3_repo_backup"][i].params[k]
              IN item[1] = "aws_session_token" /\ item[2].plain = "tok" /\ item[2].iv > 0
    /\ Len(ledger[LedgerAgent]["schedule_ledger"]) > 0

\* The responses a step of agent u's handler produces.
Emitted(u) ==
    LET old == IF run'[u].nr = run[u].nr THEN Len(run[u].events) ELSE 0
    IN {run'[u].events[i].resp : i \in {j \in (old + 1)..Len(run'[u].events) : run'[u].events[j].via # "spawn"}}

\* The response is a row of the ledger table of its type.
Persisted(led, r) ==
    /\ r.type \in Tables
    /\ \E i \in 1..Len(led[r.type]) : led[r.type][i].response = r

\* C13 (response emission rule): every response a handler produces (init,
\* snapshots, backup, restore, local and cloud) is sent upstream exactly when
\* the job type does not start with schedule_ and the channel is open, and
\* is written to the local ledger instead in every other case: never both,
\* never neither.
C13_EmissionRule ==
    [][\A u \in Agents : \A r \in Emitted(u) :
          IF SendsUpstream(run'[u].msg.type.plain, ws_state[u])
          THEN upstream'[u] = Append(upstream[u], r) /\ ledger'[u] = ledger[u]
          ELSE upstream'[u] = upstream[u] /\ Persisted(ledger'[u], r)]_vars

\* A backup or restore run of agent u that has succeeded and returned.
Succeeded(u) ==
    /\ run[u].msg.type.plain \in ProgressKinds
    /\ run[u].outcome = "ok"
    /\ run[u].pc = "idle"

\* The responses of earlier runs that agent v has kept in its ledger.
KeptResponses(v) ==
    UNION {{ledger[v][t][i].response : i \in 1..Len(ledger[v][t])} : t \in ResponseTables}

\* C14 (progress protocol ordering): a backup or restore run that succeeds
\* has emitted a processing response, then spawned the tool, then emitted a
\* completed response that carries the summary and the task_uuid of the
\* first; the task_uuids of different runs differ.
C14_ProgressOrdering ==
    /\ \A u \in Agents :
          Succeeded(u) =>
              LET e == run[u].events
              IN /\ Len(e) = 3
                 /\ e[1].resp.task_status = "processing"
                 /\ e[2] = Spawned
                 /\ e[3].resp.task_status = "completed"
                 /\ e[3].resp.payload = "summary"
                 /\ e[1].resp.task_uuid = e[3].resp.task_uuid
                 /\ e[1].resp.task_uuid = run[u].task_uuid
    /\ \A u, v \in Agents :
          run[u].task_uuid > 0 =>
              /\ u # v => run[v].task_uuid # run[u].task_uuid
              /\ \A r \in KeptResponses(v) :
                    r.task_uuid = run[u].task_uuid =>
                        u = v /\ \E i \in 1..Len(run[u].events) : run[u].events[i].resp = r

\* Agent A has finished a backup with both events sent and agent B has run
\* a backup of its own.
C14_Witness ==
    /\ Succeeded("A")
    /\ Len(run["A"].events) = 3
    /\ run["A"].events[3].resp.task_status = "completed"
    /\ run["B"].task_uuid > 0

\* A terminal event of the task of agent u's run.
Terminal(u) ==
    \E i \in 1..Len(run[u].events) :
        /\ run[u].events[i].via # "spawn"
        /\ run[u].events[i].resp.task_uuid = run[u].task_uuid
        /\ run[u].events[i].resp.task_status \in {"completed", "failed"}

\* C15 (terminal event): every backup or restore run that has emitted a
\* processing event emits a terminal event with the same task_uuid before it
\* returns: completed on success, failed when the tool exits non-zero,
\* prints no summary line, or a later step of the handler raises.
C15_TerminalEvent ==
    \A u \in Agents :
        (run[u].task_uuid > 0 /\ run[u].pc = "idle") => Terminal(u)

\* The controller takes a response of the given type off agent u's channel.
Receives(u, type) ==
    /\ upstream[u] # <<>>
    /\ upstream'[u] = Tail(upstream[u])
    /\ Head(upstream[u]).type = type

\* C16 (scenario S3): once the controller has received a response of a
\* backup task, its backup document for (system_uuid, repo_path) records the
\* task_uuid of the task and the task_status of the response: processing
\* while only the processing response has arrived, completed together with
\* the backup_output summary after the completed response.
C16_BackupDocRecordsTask ==
    [][\A u \in Agents :
          Receives(u, "response_local_repo_backup") =>
              LET r == Head(upstream[u])
              IN \E d \in store'["local_repo_backups"] :
                    /\ d.systemUuid = u
                    /\ d.repo_path = r.target
                    /\ d.task_uuid = r.task_uuid
                    /\ d.task_status = r.task_status
                    /\ r.task_status = "completed" => d.backup_output = r.payload]_vars

\* The snapshot documents stored for agent u and the repository of r.
StoredSnapshots(u, r) ==
    {d \in store["local_repo_snapshots"] : d.systemUuid = u /\ d.repo_path = r.target}

\* C17 (scenario S2): when a local list-snapshots response arrives for
\* (system_uuid, repo_path) and its snapshots equal those of the stored
\* document of that key, the stored document, response_timestamp included, is
\* left unchanged; when they differ or no document exists, the document is
\* upserted with the new snapshots and the current timestamp.
C17_SnapshotsIdempotent ==
    [][\A u \in Agents :
          Receives(u, "response_local_repo_snapshots") =>
              LET r == Head(upstream[u])
              IN IF \E d \in StoredSnapshots(u, r) : d.snapshots = r.payload
                 THEN store' = store
                 ELSE \E d \in store'["local_repo_snapshots"] :
                         /\ d.systemUuid = u
                         /\ d.repo_path = r.target
                         /\ d.snapshots = r.payload
                         /\ d.response_timestamp = now
                         /\ store'["local_repo_snapshots"] \ {d}
                               = store["local_repo_snapshots"] \ StoredSnapshots(u, r)]_vars

\* The controller has taken agent A's snapshots response off the channel and
\* the stored document with these snapshots is older than the run that sent
\* the response.
C17_Witness ==
    /\ run["A"].msg.type.plain = "get_local_repo_snapshots"
    /\ run["A"].pc = "idle"
    /\ Len(run["A"].events) = 1
    /\ run["A"].events[1].via = "upstream"
    /\ upstream["A"] = <<>>
    /\ \E d \in store["local_repo_snapshots"] :
          /\ d.systemUuid = "A"
          /\ d.repo_path = run["A"].events[1].resp.target
          /\ d.snapshots = run["A"].events[1].resp.payload
          /\ d.response_timestamp < run["A"].at

\* Agent u's handler takes an init job for a repository it has initialized.
RepeatsInit(u) ==
    /\ run'[u].nr # run[u].nr
    /\ run'[u].msg.type.plain = "init_local_repo"
    /\ run'[u].msg.repo_path.plain \in repos[u]

\* C18 (idempotent init): an init_local_repo job for a (system_uuid,
\* repo_path) whose repository is already initialized does not modify the
\* controller's initialized_local_repos document, neither summary nor
\* response_timestamp: the run stores nothing and sends no response.
C18_RepeatedInitNoChange ==
    [][\A u \in Agents :
          RepeatsInit(u) =>
              /\ store' = store
              /\ upstream' = upstream
              /\ run'[u].pc = "idle"
              /\ run'[u].events = <<>>]_vars

\* Agent A's second init of r1 has returned while the controller holds the
\* document of the first, which is older than the repeat.
C18_Witness ==
    /\ run["A"].msg.type.plain = "init_local_repo"
    /\ run["A"].outcome = "already_exists"
    /\ run["A"].pc = "idle"
    /\ upstream["A"] = <<>>
    /\ \E d \in store["initialized_local_repos"] :
          /\ d.systemUuid = "A"
          /\ d.summary = run["A"].msg.repo_path.plain
          /\ d.response_timestamp < run["A"].at

\* The collections of the local kinds, the response type stored in each and
\* the field of its documents that names the target.
LocalCollections == {"initialized_local_repos", "local_repo_snapshots", "local_repo_backups",
                     "local_repo_restores"}
TargetOfDoc(c, d) == IF c = "initialized_local_repos" THEN d.summary ELSE d.repo_path
TargetOfResponse(r) == IF r.type = "response_init_local_repo" THEN r.payload ELSE r.target

\* C19 (result-store keying): each local-kind collection holds at most one
\* document per (system_uuid, target) and a response for one target never
\* overwrites the document of another target of the same agent; the
\* cloud-kind collection holds at most one document per target whichever
\* agent reported it.
C19_StoreKeying ==
    [][/\ \A c \in LocalCollections : \A d1, d2 \in store'[c] :
             (d1.systemUuid = d2.systemUuid /\ TargetOfDoc(c, d1) = TargetOfDoc(c, d2)) => d1 = d2
       /\ \A d1, d2 \in store'["s3_repo_backups"] : d1.s3_url = d2.s3_url => d1 = d2
       /\ \A u \in Agents : \A c \in LocalCollections :
             (upstream[u] # <<>> /\ Receives(u, Head(upstream[u]).type) /\ CollectionOf(Head(upstream[u]).type) = c) =>
                 \A d \in store[c] :
                     (d.systemUuid = u /\ TargetOfDoc(c, d) # TargetOfResponse(Head(upstream[u]))) =>
                         d \in store'[c]]_vars

\* The length of an ISO 8601 duration "PT<h>H<m>M", in minutes.
Minutes(d) == 60 * (IF d.h = Null THEN 0 ELSE d.h) + (IF d.m = Null THEN 0 ELSE d.m)

\* The agent of a policy entry is enabled and the last disconnect its
\* liveness record holds is more than the threshold in the past.
Overdue(entry, doc, t) ==
    /\ entry.enabled
    /\ entry.DR_monitoring_threshold.given
    /\ doc.last_disconnected # Null
    /\ t - doc.last_disconnected > Minutes(entry.DR_monitoring_threshold)

Disconnected(u) == status_collection[u].status = "disconnected"

\* C21 (scenario S4, end to end): when the channel of an enabled agent has
\* closed and the agent stays disconnected for longer than its threshold,
\* the DR monitor, reading the liveness record the connection manager wrote,
\* eventually invokes the restore trigger for the agent with its
\* restore_config.  Here: a record that says disconnected at minute 0, under
\* a threshold of 15 minutes, leads to the trigger unless the agent
\* reconnects.
C21_EventualRestore ==
    [](/\ now = 0
       /\ Disconnected("A")
       /\ dr.policy[1] = RecoveryEntry
       => <>(Restore(RecoveryEntry) \in {dr.log[i] : i \in 1..Len(dr.log)} \/ ~Disconnected("A")))

InvalidSched ==
    {sch \in SchedInputs :
        /\ sch.scheduler # "none"
        /\ \/ sch.repeats \in {"0", "-1", "abc"}
           \/ sch.scheduler \notin {"interval", "timelapse"}
           \/ sch.scheduler = "timelapse" /\ sch.timelapse = "malformed"}

\* C23 (invalid scheduling input): a mutation given invalid scheduling input
\* returns an error string and publishes no message to any inbox.
C23_InvalidSchedulingRejected ==
    [][\A u \in Agents, sch \in InvalidSched :
          Mutation("get_local_repo_snapshots", u, sch) =>
              (lastMut'.result \in ErrorStrings /\ inbox' = inbox)]_vars

\* The consumer of agent u has taken a scheduled job off the inbox.
TookScheduled(u) == run[u].nr > 0 /\ run[u].msg.type.plain \in ScheduleTypes

\* C24 (scenario S5): a job scheduled with an interval and scheduler_repeats
\* "3" that is delivered to a connected agent makes the agent's scheduler
\* fire the operation handler three times, one interval apart.  Here, the
\* least of it: once the consumer has taken the scheduled job, the handler
\* eventually runs for it and produces a response.
C24_ScheduledJobFires ==
    [](TookScheduled("A") => <>(TookScheduled("A") /\ run["A"].events # <<>>))

\* C25: the agent never gives up: token requests and channel connects are
\* retried for as long as no shutdown signal has arrived, so agent() has
\* returned only if the running flag was cleared.
C25_RetriesUntilShutdown ==
    \A u \in ChannelAgents : agent[u].pc = "returned" => ~agent[u].running


\* C27: once the running flag is false, agent() eventually returns, from
\* whatever state it is in, and interruptible_sleep completes at most one
\* more 1-second step.
C27_ShutdownTerminates ==
    /\ [](\A u \in ChannelAgents : ~agent[u].running => <>(agent[u].pc = "returned"))
    /\ [](\A u \in ChannelAgents : agent[u].late <= 1)

\* The flag was cleared during a 1-second step of the main loop's sleep, and
\* agent() has returned.
C27_Witness ==
    /\ agent["A"].pc = "returned"
    /\ ~agent["A"].running
    /\ agent["A"].token # NoToken
    /\ agent["A"].late = 1

\* A token request or a connect has failed and its wait begins.
RetrySleeps(u) == agent[u].pc \in {"auth", "connect"} /\ agent'[u].pc = "sleep"

BackoffCap(back) == IF back = "auth" THEN auth_max_backoff_time ELSE max_backoff_time

C26_RejectedAgentReauthenticates ==
    [][\A u \in ChannelAgents :
          (AgentOpen(u) /\ lastOpen'.code = CLOSE_UNAUTHORIZED) => agent'[u].pc = "auth"]_vars


\* The documents stored under the key of backup response r of agent u.
StoredBackups(u, r) ==
    {d \in store[CollectionOf(r.type)] :
        /\ d.systemUuid = u
        /\ IF r.type = "response_s3_repo_backup" THEN d.s3_url = r.target ELSE d.repo_path = r.target}

\* C29 (de-duplication, remaining kinds): a local backup response or a cloud
\* backup response whose backup_output equals that of the document stored
\* under the same key, and a cloud list-snapshots response whose snapshots
\* equal those of the stored document of the bucket, leave the store,
\* response_timestamp included, unchanged.
C29_EqualPayloadSkipped ==
    [][/\ \A u \in Agents, type \in {"response_local_repo_backup", "response_s3_repo_backup"} :
             Receives(u, type) =>
                 LET r == Head(upstream[u])
                 IN (\E d \in StoredBackups(u, r) : d.backup_output = r.payload) => store' = store
       /\ \A snapshots \in SnapshotLists :
             (/\ get_s3_repo_snapshots("b1", snapshots)
              /\ \E d \in store["s3_repo_snapshots"] : d.s3_url = "b1" /\ d.snapshots = snapshots)
                 => store' = store]_vars

\* The collections of cached snapshot documents and of backup documents.
PrunedCollections == {"local_repo_snapshots", "s3_repo_snapshots", "local_repo_backups", "s3_repo_backups"}

\* C30 (retention): a run of the sweep deletes every snapshot document and
\* every backup document, local and cloud, whose response_timestamp is older
\* than the window of one minute, keeps those inside the window, and deletes
\* nothing from the initialization and restore collections.
C30_RetentionSweep ==
    [][cleanup_old_data =>
          \A c \in Collections :
             store'[c] = IF c \in PrunedCollections
                         THEN {d \in store[c] : ~(d.response_timestamp < now - 1)}
                         ELSE store[c]]_vars


\* The seconds of H hours, M minutes and S seconds, absent fields counted as zero.
FieldSecondsOf(h, m, s) ==
    3600 * (IF h = Null THEN 0 ELSE h) + 60 * (IF m = Null THEN 0 ELSE m) + (IF s = Null THEN 0 ELSE s)

\* C31 (threshold parsing): for every text PT<H>H<M>M<S>S with any subset of
\* the three fields, parse_duration returns H hours + M minutes + S seconds,
\* absent fields counted as zero, and for the fallback form <N>h<N>m it
\* returns N hours + N minutes.
C31_ParseDuration ==
    \A i \in 1..Len(dr.log) :
       LET text == dr.policy[i].DR_monitoring_threshold
       IN /\ \A h \in FieldHours, m \in FieldMinutes, s \in FieldSeconds :
                text = IsoDuration(h, m, s) => dr.log[i] = Parsed(FieldSecondsOf(h, m, s))
          /\ \A h \in FlexHours, m \in FlexMinutes, blank \in BOOLEAN :
                text = FlexDuration(h, m, blank) => dr.log[i] = Parsed(FieldSecondsOf(h, m, 0))


\* The lines of an output that parse to an object with message_type summary.
SummaryIndexes(output) ==
    {i \in 1..Len(output) : output[i].kind = "object" /\ output[i].message_type = "summary"}

\* C32 (summary extraction): for every sequence of output lines, the
\* operation result is the first line that parses to an object whose
\* message_type is summary, every other line before it being skipped, and
\* without such a line the operation has no summary result.
C32_FirstSummaryLine ==
    [][\A output \in Outputs :
          handle_do_scan("A", output) =>
              IF SummaryIndexes(output) = {}
              THEN run'["A"].pc = "idle" /\ run'["A"].resp = NoResponse
              ELSE LET first == CHOOSE i \in SummaryIndexes(output) : \A j \in SummaryIndexes(output) : i <= j
                   IN /\ run'["A"].pc = "emit"
                      /\ run'["A"].resp.payload = output[first].summary
                      /\ run'["A"].resp.task_status = "completed"]_vars


\* Consumer k takes a message of unknown or missing type from its buffer.
SkipsUnknown(k) ==
    /\ cons[k].buf # <<>>
    /\ Head(cons[k].buf).type \in UnknownTypes
    /\ cons'[k].buf = Tail(cons[k].buf)

\* C33: an inbox message whose type is unknown or missing invokes no
\* handler, produces no upstream response and no ledger write, and does not
\* stop the consumer: a message with a handler that is in the inbox or in a
\* consumer's buffer is eventually delivered to its handler.
C33_UnknownTypeIgnored ==
    /\ [][\A k \in ConnIds :
             SkipsUnknown(k) =>
                /\ invoked' = invoked
                /\ upstream' = upstream
                /\ ledger' = ledger
                /\ cons'[k].st = cons[k].st
                /\ cons'[k].cur = NoMsg]_vars
    /\ \A id \in 1..MaxMuts :
          [](id \in InFlight /\ lastMut.id = id /\ lastMut.type \in DispatchTable
                => <>(\E u \in Agents : \E i \in 1..Len(invoked[u]) : invoked[u][i] = id))

\* The consumer of agent A has skipped message 1, of unknown type, and the
\* handler of job 2, published after it, has returned.
C33_Witness ==
    /\ \E k \in ConnIds : cons[k].skipped = {1}
    /\ invoked["A"] = <<2>>
    /\ handled = {2}


\* The ids of the job messages (the types the dispatcher publishes) that a
\* consumer holds unacknowledged: in its buffer or in its handler.
HeldJobs ==
    UNION {{cons[k].buf[i].id : i \in {j \in 1..Len(cons[k].buf) : cons[k].buf[j].type \in Kinds \cup ScheduleTypes}}
              : k \in ConnIds}
      \cup {cons[k].cur.id : k \in {c \in ConnIds : cons[c].cur # NoMsg}}

\* C34 (at-least-once consumption): a job message leaves the broker only
\* when its handler has returned; a message whose processing raised or was
\* interrupted before that stays available for redelivery: it is still held
\* by a consumer or back in the inbox.
C34_AckAfterHandler ==
    [][\A id \in HeldJobs :
          \/ id \in handled'
          \/ id \in InFlight']_vars

\* C35: a failure of a store write does not abort the request it occurs in:
\* a turn of the receive loop in which the result store fails leaves the
\* channel as it was, open and receiving, so that the next message is handled.
C35_StoreFailureKeepsChannel ==
    [][\A c \in ConnIds : receive_data(c, "store_error") => conn'[c] = conn[c]]_vars

\* The receive loop of channel c is over: receive_data has returned or raised.
LoopEnded(c) == conn[c].pc \in {"done", "ended"}

\* No channel of agent u is open or on its way through connect or disconnect.
NoChannelOf(u) == \A c \in ConnIds : conn[c].uuid = u => conn[c].pc \in {"unused", "done", "ended"}

\* C37: whenever the receive loop of an agent's channel has ended, for any
\* reason, and no other channel of the agent exists, the agent is not in
\* active_connections, its status is disconnected and a mutation that targets
\* it returns "Error: Client not connected".
C37_EndedLoopDisconnects ==
    \A c \in ConnIds :
        LoopEnded(c) /\ NoChannelOf(conn[c].uuid) =>
            /\ active_connections[conn[c].uuid] = NoConn
            /\ status_collection[conn[c].uuid].status = "disconnected"
            /\ Dispatch("init_local_repo", conn[c].uuid, NoSched).result = NotConnected

\* C38: a channel for system uuid X is accepted only when the subject of the
\* presented token equals X: the last request served without a close code
\* carried a token whose sub is the uuid of the path.
C38_SubjectMatchesChannel ==
    lastOpen.uuid \in Agents /\ lastOpen.code = 0 => lastOpen.token.sub = lastOpen.uuid

\* The channel c is the most recent one requested for its agent, its open has
\* completed (connect has returned and the loop receives) and it is not closed.
LatestOpen(c) ==
    /\ conn[c].pc = "receiving"
    /\ conn[c].open
    /\ \A d \in ConnIds : d > c => conn[d].uuid # conn[c].uuid

\* C39: under any interleaving of opens and closes, an agent whose most
\* recent channel open has completed and has not been closed has an entry in
\* active_connections, its inbox queue and the status connected; the close
\* of an older channel of the agent takes none of them away.
C39_LatestChannelRegistered ==
    \A c \in ConnIds :
        LatestOpen(c) =>
            /\ active_connections[conn[c].uuid] # NoConn
            /\ queues[conn[c].uuid] # NoQueue
            /\ inbox[conn[c].uuid].exists
            /\ status_collection[conn[c].uuid].status = "connected"

\* C40: if a list-snapshots response for (system uuid, repo_path) was
\* handled less than one retention window (one minute) ago, the controller
\* holds a snapshots document for that key, whatever the interleaving of
\* responses and sweeps, and also when the response was equal to the stored
\* snapshots.
C40_RecentResponseKept ==
    \A e \in responded :
        now - e.at < 1 =>
            \E d \in store["local_repo_snapshots"] :
                d.systemUuid = e.systemUuid /\ d.repo_path = e.repo_path

\* The jobs of agent u whose handler was invoked and has not returned.
Unfinished(u) == {invoked[u][i] : i \in 1..Len(invoked[u])} \ handled

\* C36: on shutdown a handler that is in progress runs to completion before
\* the agent exits (when agent() has returned, every handler that was invoked
\* has returned), and no inbox message starts a handler after the shutdown
\* began (a handler begins only while the running flag is set).
C36_ShutdownDrainsHandlers ==
    /\ [](\A u \in ChannelAgents : agent[u].pc = "returned" => Unfinished(u) = {})
    /\ [][\A k \in ConnIds : handler_begin(k) => agent[cons[k].uuid].running]_vars

====
